---- MODULE Spec2Model ----
(***************************************************************************)
(* Model of containers::LRU (src/14-lru/lru.cc): an unordered_map from Key *)
(* to (Value, list iterator) together with a std::list of keys kept in     *)
(* access order, least recently used at the front; and of                  *)
(* containers::Hashtable (src/10-hashtable/hashtable.cc): a vector of      *)
(* forward_list chains that doubles when the load factor reaches alpha.    *)
(***************************************************************************)
EXTENDS Integers, Sequences, FiniteSets, TLC

\* ------------------------------------------------------------------ bounds
NumKeys == 4
NumVals == 2
MaxCap == 3

Keys == 1..NumKeys
Values == 1..NumVals
Capacities == 1..MaxCap
\* Addresses of std::list nodes (what a list iterator designates).
Iters == 1..(NumKeys + MaxCap + 1)

\* std::optional<Value>: the empty set is std::nullopt, {v} holds v.
nullopt == {}
Some(v) == {v}

VARIABLES
    capacity_,  \* LRU::capacity_
    cache,      \* LRU::cache: Key -> [first: Value, second: list iterator]
    order,      \* LRU::order: sequence of list nodes [it, key], front first
    ub,         \* TRUE once a call has executed undefined behaviour
    last,       \* the last call made on the cache: op, key, value, what it
                \* returned, whether the key was in the cache and whether
                \* the cache was full when it was made, and for a set
                \* whether it repeats the call before it
    touched,    \* reference: the capacity_ most recently touched distinct
                \* keys, least recently touched first
    written,    \* reference: for each key of touched, the value of the
                \* latest set(k, .); nullopt for every other key
    phase,      \* position of the call history in the fill/refresh scenario
    fills       \* the keys set so far in that scenario, in call order

vars == <<capacity_, cache, order, ub, last, touched, written, phase, fills>>

VARIABLES
    buckets,    \* Hashtable::buckets: sequence of chains; bucket h of the
                \* code is buckets[h + 1]; a chain is a sequence of
                \* [key, value] entries, front first
    nelems,     \* Hashtable::nelems
    hlast,      \* the last call made on the table: op, key, value, what it
                \* returned
    href        \* reference: HKey -> optional value, the plain map that the
                \* calls made so far describe

hvars == <<buckets, nelems, hlast, href>>

\* A table that holds many entries, seen through its two counters only:
\* cnelems is nelems and cnbuckets is buckets.size().
VARIABLES cnelems, cnbuckets

cvars == <<cnelems, cnbuckets>>

\* MaxStack (src/12-maxstack/maxstack.cc): the stacks elems and maxv, the
\* reference stack sRef and the last call sLast.
VARIABLES sElems, sMaxv, sRef, sLast

msvars == <<sElems, sMaxv, sRef, sLast>>

\* MaxQueue (src/13-maxqueue/maxqueue.cc): the queue elems and the deque
\* maxv, the reference queue qRef and the last call qLast.
VARIABLES qElems, qMaxv, qRef, qLast

mqvars == <<qElems, qMaxv, qRef, qLast>>

\* Heap (src/07-heap/heap.cc): the vector tree, the comparison less, the
\* reference multiset hRef (how often each value is in the heap) and the
\* last call pLast.
VARIABLES tree, less, hRef, pLast

hpvars == <<tree, less, hRef, pLast>>

\* UnionFind (src/11-union-find/union_find.cc): the maps components and
\* sizes, the ids added and the pairs joined so far, and the last call.
VARIABLES components, sizes, uAdded, uPairs, uLast

ufvars == <<components, sizes, uAdded, uPairs, uLast>>

\* Deque (src/04-deque/deque.cc): the nodes that are allocated, head, tail
\* and nelem, the reference sequence dRef, whether undefined behaviour was
\* executed, and the last call.
VARIABLES nodes, head, tail, nelem, dRef, dUb, dLast

dqvars == <<nodes, head, tail, nelem, dRef, dUb, dLast>>

\* Graph and bfs (src/09-graph/graph.cc): Graph::vertices, the number of
\* add_edge calls made, and of the call of bfs its position, its argument
\* start, its locals discovered and vertices (the queue), whether it threw,
\* the calls of visit it made, and the map visited that the visitor fills.
VARIABLES gVertices, gCalls, bPc, bStart, bDiscovered, bQueue, bThrew,
          bVisits, bVisited

gvars == <<gVertices, gCalls, bPc, bStart, bDiscovered, bQueue, bThrew,
           bVisits, bVisited>>

\* A second Hashtable, whose Hash sends every key to the same bucket:
\* its buckets and nelems, and whether every find made so far returned on
\* it what it returned on the first table.
VARIABLES buckets2, nelems2, tSame

twvars == <<buckets2, nelems2, tSame>>

\* A call of insert, find, erase, get or set taken step by step: the
\* program that runs (hashtable.cc and lru.cc each have a main of their
\* own), the place pc the call has reached, the call and the table it was
\* made on, the iterator iter of the loop over a chain and the number cnt of
\* entries remove_if removed, and for rehash the vector buckets_cp, the
\* positions pos of its two loops and the number of times the call entered
\* rehash.
VARIABLES prog, pc, call, iter, cnt, buckets_cp, pos, rehashes

stvars == <<prog, pc, call, iter, cnt, buckets_cp, pos, rehashes>>

\* The state of the cache and the table, and that of the other containers.
ovars == <<vars, hvars, cvars>>
cnvars == <<msvars, mqvars, hpvars, ufvars, dqvars>>
xvars == <<gvars, twvars, stvars>>
nvars == <<cnvars, xvars>>

\* ------------------------------------------------------- sequence helpers
Range(s) == {s[i] : i \in DOMAIN s}
Last(s) == s[Len(s)]
RemoveKey(s, k) == SelectSeq(s, LAMBDA x : x # k)

\* ------------------------------------------------------------- std::list
ListIters(o) == {o[i].it : i \in DOMAIN o}
ListKeys(o) == [i \in DOMAIN o |-> o[i].key]

\* The address of the node a list allocates for an insert of key.  The
\* allocator may hand out any address that no live node occupies, and the
\* code never compares or inspects addresses, so every choice gives the same
\* behaviour up to a renaming of addresses.  The model takes address key
\* when it is unoccupied (this includes the address of a node for key that
\* was just erased) and the least unoccupied address otherwise.
NewIter(o, key) ==
    IF key \notin ListIters(o) THEN key
    ELSE CHOOSE h \in Iters \ ListIters(o) :
             \A g \in Iters \ ListIters(o) : h <= g

\* Mutant: the new node goes to the front of the list.
ListInsertFront(o, key) == <<[it |-> NewIter(o, key), key |-> key]>> \o o

\* order.insert(std::end(order), key): appends, returns iterator to the node.
ListInsertEnd(o, key) == Append(o, [it |-> NewIter(o, key), key |-> key])

\* order.erase(it): unlinks the node that it designates.
ListErase(o, it) == SelectSeq(o, LAMBDA n : n.it # it)

\* order.front() and order.pop_front().
ListFront(o) == Head(o).key
ListPopFront(o) == Tail(o)

\* ---------------------------------------------------- std::unordered_map
MapFind(c, key) == key \in DOMAIN c
MapErase(c, key) == [k \in DOMAIN c \ {key} |-> c[k]]
\* emplace does not overwrite an element that is already there.
MapEmplace(c, key, entry) ==
    IF key \in DOMAIN c THEN c
    ELSE [k \in DOMAIN c \cup {key} |-> IF k = key THEN entry ELSE c[k]]
MapSize(c) == Cardinality(DOMAIN c)

\* --------------------------------------------------------------- LRU::get
\* Mutant: get returns the value without refreshing the access order.
GetFoundNoRefresh(c, o, key) ==
    [cache |-> c, order |-> o, ret |-> Some(c[key].first), ub |-> FALSE]

\* Mutant: get erases the front node instead of the node of the key.
GetFoundErasesFront(c, o, key) ==
    LET o1 == Tail(o)
        o2 == ListInsertEnd(o1, key)
        c1 == [c EXCEPT ![key].second = Last(o2).it]
    IN  [cache |-> c1, order |-> o2, ret |-> Some(c1[key].first),
         ub |-> FALSE]

\* Lines 40-43: the found branch of get.
GetFound(c, o, key) ==
    LET it == c[key].second
        o1 == ListErase(o, it)
        o2 == ListInsertEnd(o1, key)
        c1 == [c EXCEPT ![key].second = Last(o2).it]
    IN  [cache |-> c1, order |-> o2, ret |-> Some(c1[key].first),
         ub |-> it \notin ListIters(o)]

\* Mutant: a get of a key that is not cached still records an access.
LRUgetTouchesAbsent(c, o, key) ==
    IF ~MapFind(c, key)
    THEN [cache |-> c, order |-> ListInsertEnd(o, key), ret |-> nullopt,
          ub |-> FALSE]
    ELSE GetFound(c, o, key)

\* Mutant: a get of a key that is not cached inserts it with a default
\* value, the way operator[] of a map does.
LRUgetInsertsDefault(c, o, key) ==
    IF ~MapFind(c, key)
    THEN LET o2 == ListInsertEnd(o, key)
         IN  [cache |-> MapEmplace(c, key,
                                   [first |-> 1, second |-> Last(o2).it]),
              order |-> o2, ret |-> nullopt, ub |-> FALSE]
    ELSE GetFound(c, o, key)

\* Lines 34-44.
LRUget(c, o, key) ==
    IF ~MapFind(c, key)
    THEN [cache |-> c, order |-> o, ret |-> nullopt, ub |-> FALSE]
    ELSE GetFound(c, o, key)

\* --------------------------------------------------------------- LRU::set
\* Mutant: the eviction pops order but leaves the entry in cache.
EvictKeepsEntry(c, o, cap) ==
    IF MapSize(c) = cap /\ o # <<>>
    THEN [cache |-> c, order |-> ListPopFront(o), ub |-> FALSE]
    ELSE [cache |-> c, order |-> o, ub |-> FALSE]

\* Mutant: the fullness test is off by one.
EvictLate(c, o, cap) ==
    IF MapSize(c) = cap + 1 /\ o # <<>>
    THEN [cache |-> MapErase(c, ListFront(o)), order |-> ListPopFront(o),
          ub |-> FALSE]
    ELSE [cache |-> c, order |-> o, ub |-> FALSE]

\* Mutant: the eviction removes the most recently used entry.
EvictNewest(c, o, cap) ==
    IF MapSize(c) = cap /\ o # <<>>
    THEN [cache |-> MapErase(c, Last(o).key),
          order |-> SubSeq(o, 1, Len(o) - 1), ub |-> FALSE]
    ELSE [cache |-> c, order |-> o, ub |-> FALSE]

\* Lines 52-56: evict the least recently used entry when the cache is full.
Evict(c, o, cap) ==
    IF MapSize(c) = cap
    THEN IF o = <<>>
         THEN [cache |-> c, order |-> o, ub |-> TRUE]
         ELSE [cache |-> MapErase(c, ListFront(o)), order |-> ListPopFront(o),
               ub |-> FALSE]
    ELSE [cache |-> c, order |-> o, ub |-> FALSE]

\* Mutant: an insert evicts whenever the cache is not empty.
SetNewEvictsEarly(c, o, cap, key, value) ==
    LET e == Evict(c, o, MapSize(c))
        o2 == ListInsertEnd(e.order, key)
        c2 == MapEmplace(e.cache, key,
                         [first |-> value, second |-> Last(o2).it])
    IN  [cache |-> c2, order |-> o2, ub |-> FALSE]

\* Mutant: a full cache rejects a new key instead of evicting.
SetNewRejectsWhenFull(c, o, cap, key, value) ==
    IF MapSize(c) = cap
    THEN [cache |-> c, order |-> o, ub |-> FALSE]
    ELSE LET o2 == ListInsertEnd(o, key)
             c2 == MapEmplace(c, key,
                              [first |-> value, second |-> Last(o2).it])
         IN  [cache |-> c2, order |-> o2, ub |-> FALSE]

\* Lines 51-60: the branch of set for a key that is not in the cache.
SetNew(c, o, cap, key, value) ==
    LET e == Evict(c, o, cap)
        o2 == ListInsertEnd(e.order, key)
        c2 == MapEmplace(e.cache, key,
                         [first |-> value, second |-> Last(o2).it])
    IN  [cache |-> c2, order |-> o2, ub |-> e.ub]

\* Mutant: an update overwrites the value and leaves the access order.
SetPresentNoRefresh(c, o, key, value) ==
    [cache |-> [c EXCEPT ![key].first = value], order |-> o, ub |-> FALSE]

\* Lines 63-65: the branch of set for a key that is in the cache.
SetPresent(c, o, key, value) ==
    LET c1 == [c EXCEPT ![key].first = value]
        it == c1[key].second
        o1 == ListErase(o, it)
        o2 == ListInsertEnd(o1, key)
        c2 == [c1 EXCEPT ![key].second = Last(o2).it]
    IN  [cache |-> c2, order |-> o2, ub |-> it \notin ListIters(o)]

\* Mutant: set never looks the key up and always takes the insert branch.
LRUsetNoFind(c, o, cap, key, value) == SetNew(c, o, cap, key, value)

\* Lines 47-67.
LRUset(c, o, cap, key, value) ==
    IF ~MapFind(c, key)
    THEN SetNew(c, o, cap, key, value)
    ELSE SetPresent(c, o, key, value)

\* Mutant: capacity() returns the number of elements.
capacityReturnsSize == MapSize(cache)

\* size() and capacity().
size == MapSize(cache)
capacity == capacity_

\* ============================================================= Hashtable
NumHKeys == 6
\* Hashtable() : buckets(8)
InitBuckets == 8
\* float alpha{0.75}, as the fraction AlphaNum / AlphaDen.
AlphaNum == 3
AlphaDen == 4
FloatDigits == 24     \* significand bits of float
NumTestKeys == 9      \* the entries of the test that forces a rehash
MaxBucketExp == 27    \* bucket counts go up to 2^MaxBucketExp

HKeys == 1..NumHKeys
\* The table copies values and never inspects them: two values are enough
\* to tell an overwrite from the value it replaces.
HValues == {1, 2}

\* Hash hasher: a deterministic function of the key.  This one sends keys 1
\* and 2 to one bucket of 8 and to different buckets of 16, keys 3 and 4 to
\* one bucket of 8 and of 16, and every other key to a bucket of its own.
\* The keys above NumHKeys are the keys of a table whose Hash is another
\* function, one that sends every key to 0.
hasher(k) ==
    IF k > NumHKeys THEN 0
    ELSE IF k \in {2, 4} THEN (k - 1) + 8 * (k \div 2) ELSE k

\* hasher(k) % buckets.size(), as an index into the sequence of chains.
BucketOf(k, n) == (hasher(k) % n) + 1

\* The private find(b, k): std::find_if over the chain with equals; the
\* position of the first entry whose key equals k, 0 for std::end(b).
ChainFind(b, k) ==
    IF \E i \in DOMAIN b : b[i].key = k
    THEN CHOOSE i \in DOMAIN b :
             b[i].key = k /\ \A j \in DOMAIN b : b[j].key = k => i <= j
    ELSE 0

\* b.push_front(std::make_pair(k, v)) and buckets_cp[h].emplace_front(e).
ChainPushFront(b, e) == <<e>> \o b

\* b.remove_if(...) with the predicate equals(k, v.first), and the number of
\* entries it removes.
ChainRemoveIf(b, k) == SelectSeq(b, LAMBDA e : e.key # k)
ChainCount(b, k) == Cardinality({i \in DOMAIN b : b[i].key = k})

\* The conversion of an unsigned integer to float: the nearest value with a
\* significand of FloatDigits bits, a tie going to the even significand.
\* Every integer below 2^FloatDigits converts to itself.  The counts that
\* occur are below 2^(MaxBucketExp + 2).
ToFloat(n) ==
    IF n < 2^FloatDigits THEN n
    ELSE LET e == CHOOSE x \in 1..(MaxBucketExp + 2 - FloatDigits) :
                      2^(FloatDigits + x - 1) <= n /\ n < 2^(FloatDigits + x)
             ulp == 2^e
             q == n \div ulp
             r == n % ulp
         IN  IF 2 * r < ulp THEN q * ulp
             ELSE IF 2 * r > ulp THEN (q + 1) * ulp
             ELSE IF q % 2 = 0 THEN q * ulp ELSE (q + 1) * ulp

\* nelems/float(buckets.size()) >= alpha: nelems is converted to float and
\* divided in float.  The bucket count is 8 times a power of two, so it
\* converts to itself and the division by it is exact; alpha is 0.75, which
\* float holds exactly.
LoadReached(n, nb) == ToFloat(n) * AlphaDen >= AlphaNum * ToFloat(nb)

\* Mutant: the bucket count never grows.
BucketsAfterNewNoRehash(n, nb) == nb

\* Lines 46-50 on the counters: the count after an insert of a key that is
\* not in the table, and the bucket count after it.
CountAfterNew(n) == n + 1
BucketsAfterNew(n, nb) ==
    IF LoadReached(CountAfterNew(n), nb) THEN nb * 2 ELSE nb

\* The entries of all chains in the order the loops of rehash visit them.
RECURSIVE Flatten(_)
Flatten(bs) == IF bs = <<>> THEN <<>> ELSE Head(bs) \o Flatten(Tail(bs))

\* Mutant: the copy loop assigns the entry to its new bucket instead of
\* adding it to the chain.
RECURSIVE RehashIntoOverwrites(_, _)
RehashIntoOverwrites(es, cp) ==
    IF es = <<>> THEN cp
    ELSE LET e == Head(es)
             h == BucketOf(e.key, Len(cp))
         IN  RehashIntoOverwrites(Tail(es), [cp EXCEPT ![h] = <<e>>])

\* Lines 132-137: the loops of rehash, entry by entry.
RECURSIVE RehashInto(_, _)
RehashInto(es, cp) ==
    IF es = <<>> THEN cp
    ELSE LET e == Head(es)
             h == BucketOf(e.key, Len(cp))
         IN  RehashInto(Tail(es), [cp EXCEPT ![h] = ChainPushFront(@, e)])

\* Mutant: rehash grows the vector and leaves every entry where it is.
RehashKeepsChains(bs, count) == bs \o [i \in 1..(count - Len(bs)) |-> <<>>]

\* Lines 127-139: rehash(count).
Rehash(bs, count) == RehashInto(Flatten(bs), [i \in 1..count |-> <<>>])

\* Mutant: the table grows by one bucket when the load factor is reached.
InsertNewGrowsByOne(bs, n, k, v) ==
    LET h == BucketOf(k, Len(bs))
        bs1 == [bs EXCEPT ![h] = ChainPushFront(@, [key |-> k, value |-> v])]
        n1 == n + 1
    IN  IF LoadReached(n1, Len(bs1))
        THEN [buckets |-> Rehash(bs1, Len(bs1) + 1), nelems |-> n1]
        ELSE [buckets |-> bs1, nelems |-> n1]

\* Lines 44-50: insert of a key that its bucket does not hold.
InsertNew(bs, n, k, v) ==
    LET h == BucketOf(k, Len(bs))
        bs1 == [bs EXCEPT ![h] = ChainPushFront(@, [key |-> k, value |-> v])]
        n1 == n + 1
    IN  IF LoadReached(n1, Len(bs1))
        THEN [buckets |-> Rehash(bs1, Len(bs1) * 2), nelems |-> n1]
        ELSE [buckets |-> bs1, nelems |-> n1]

\* Mutant: an update removes the entry and puts the new one at the front of
\* the chain.
InsertUpdateMovesToFront(bs, n, k, v) ==
    LET h == BucketOf(k, Len(bs))
    IN  [buckets |-> [bs EXCEPT ![h] = ChainPushFront(ChainRemoveIf(@, k),
                                           [key |-> k, value |-> v])],
         nelems |-> n]

\* Lines 52-55: insert of a key that its bucket holds.
InsertUpdate(bs, n, k, v) ==
    LET h == BucketOf(k, Len(bs))
        entry == ChainFind(bs[h], k)
    IN  [buckets |-> [bs EXCEPT ![h][entry].value = v], nelems |-> n]

\* Mutant: insert does not look for the key and always adds an entry.
HTinsertNoFind(bs, n, k, v) == InsertNew(bs, n, k, v)

\* Lines 38-56.
HTinsert(bs, n, k, v) ==
    IF ChainFind(bs[BucketOf(k, Len(bs))], k) = 0
    THEN InsertNew(bs, n, k, v)
    ELSE InsertUpdate(bs, n, k, v)

\* Lines 59-68.
HTfind(bs, k) ==
    LET b == bs[BucketOf(k, Len(bs))]
        entry == ChainFind(b, k)
    IN  IF entry = 0 THEN nullopt ELSE Some(b[entry].value)

\* Mutant: erase decrements the count whether or not it removed an entry.
HTeraseAlwaysDecrements(bs, n, k) ==
    [buckets |-> [bs EXCEPT ![BucketOf(k, Len(bs))] = ChainRemoveIf(@, k)],
     nelems |-> IF n > 0 THEN n - 1 ELSE n]

\* Mutant: erase empties the bucket of the key.
HTeraseClearsBucket(bs, n, k) ==
    LET h == BucketOf(k, Len(bs))
    IN  [buckets |-> [bs EXCEPT ![h] = <<>>],
         nelems |-> IF ChainCount(bs[h], k) # 0 THEN n - 1 ELSE n]

\* Mutant: an erase that empties the table rehashes it into half as many
\* buckets.
HTeraseShrinks(bs, n, k) ==
    LET h == BucketOf(k, Len(bs))
        count == ChainCount(bs[h], k)
        bs1 == [bs EXCEPT ![h] = ChainRemoveIf(@, k)]
        n1 == IF count # 0 THEN n - 1 ELSE n
    IN  IF n1 = 0 /\ Len(bs) > InitBuckets
        THEN [buckets |-> Rehash(bs1, Len(bs) \div 2), nelems |-> n1]
        ELSE [buckets |-> bs1, nelems |-> n1]

\* Lines 71-88.
HTerase(bs, n, k) ==
    LET h == BucketOf(k, Len(bs))
        count == ChainCount(bs[h], k)
    IN  [buckets |-> [bs EXCEPT ![h] = ChainRemoveIf(@, k)],
         nelems |-> IF count # 0 THEN n - 1 ELSE n]

\* size() and nbuckets().
HTsize == nelems
nbuckets == Len(buckets)

\* The keys that some chain holds, and the number of entries in all chains.
StoredKeys(bs) ==
    UNION {{bs[h][i].key : i \in DOMAIN bs[h]} : h \in DOMAIN bs}
NumEntries(bs) == Len(Flatten(bs))
Entries(bs) == UNION {{bs[h][i] : i \in DOMAIN bs[h]} : h \in DOMAIN bs}

\* Two tables that differ in Hash only.  The code reads a key through
\* hasher and equals alone, so a table with the hash function
\* k |-> hasher(Renamed(k)) is the table with hasher that stores Renamed(k)
\* for k, Renamed being one-to-one.  The keys are as many as the first
\* rehash takes.
TwinKeys == 1..((AlphaNum * InitBuckets + AlphaDen - 1) \div AlphaDen)
Renamed(k) == k + NumHKeys

\* Hashtable().
HtInit ==
    /\ buckets2 = [i \in 1..InitBuckets |-> <<>>]
    /\ nelems2 = 0
    /\ tSame = TRUE
    /\ buckets = [i \in 1..InitBuckets |-> <<>>]
    /\ nelems = 0
    /\ hlast = [op |-> "new", key |-> 0, value |-> nullopt, ret |-> nullopt,
                had |-> FALSE, grew |-> FALSE]
    /\ href = [k \in HKeys |-> nullopt]
    /\ cnelems = 0
    /\ cnbuckets = InitBuckets

\* ============================================================= MaxStack
\* src/12-maxstack/maxstack.cc; also the element type and the size bound of
\* MaxQueue and Heap.
NumElems == 3
MaxSize == 4

\* T: the values pushed.
Elems == 1..NumElems

\* The greatest value in a sequence that is not empty.
SeqMax(s) == CHOOSE x \in Range(s) : \A y \in Range(s) : y <= x

\* std::stack: the top is the last element.
StackPush(s, v) == Append(s, v)
StackTop(s) == s[Len(s)]
StackPop(s) == SubSeq(s, 1, Len(s) - 1)

\* Mutant: push puts every value on maxv.
MaxStackPushAlways(e, m, v) ==
    [elems |-> StackPush(e, v), maxv |-> StackPush(m, v)]

\* Lines 28-34.
MaxStackPush(e, m, v) ==
    [elems |-> StackPush(e, v),
     maxv |-> IF m = <<>> \/ v >= StackTop(m) THEN StackPush(m, v) ELSE m]

\* Lines 60-63: pop of a stack that is not empty.
MaxStackPop(e, m) ==
    [elems |-> StackPop(e),
     maxv |-> IF StackTop(e) = StackTop(m) THEN StackPop(m) ELSE m]

\* Lines 42 and 51: what top() and max() return when they do not throw.
MaxStackTop(e) == StackTop(e)
MaxStackMax(m) == StackTop(m)

\* MaxStack() = default.
MsInit ==
    /\ sElems = <<>>
    /\ sMaxv = <<>>
    /\ sRef = <<>>
    /\ sLast = [op |-> "new", value |-> nullopt, threw |-> FALSE]

\* ============================================================= MaxQueue
\* src/13-maxqueue/maxqueue.cc.
\* std::queue and std::deque: the front is the first element.
QueuePush(q, v) == Append(q, v)
QueueFront(q) == Head(q)
QueuePop(q) == Tail(q)
StdDequeBack(q) == q[Len(q)]
StdDequePopBack(q) == SubSeq(q, 1, Len(q) - 1)

\* Lines 32-35: the loop that removes the values smaller than v from the
\* back of maxv.
RECURSIVE DropSmaller(_, _)
DropSmaller(m, v) ==
    IF m # <<>> /\ v > StdDequeBack(m)
    THEN DropSmaller(StdDequePopBack(m), v)
    ELSE m

\* Lines 29-37.
MaxQueuePush(e, m, v) ==
    [elems |-> QueuePush(e, v), maxv |-> QueuePush(DropSmaller(m, v), v)]

\* Mutant: pop leaves maxv alone.
MaxQueuePopKeepsMax(e, m) == [elems |-> QueuePop(e), maxv |-> m]

\* Lines 62-66: pop of a queue that is not empty.
MaxQueuePop(e, m) ==
    [elems |-> QueuePop(e),
     maxv |-> IF QueueFront(e) = QueueFront(m) THEN QueuePop(m) ELSE m]

\* Lines 45 and 54: what front() and max() return when they do not throw.
MaxQueueFront(e) == QueueFront(e)
MaxQueueMax(m) == QueueFront(m)

\* MaxQueue() = default.
MqInit ==
    /\ qElems = <<>>
    /\ qMaxv = <<>>
    /\ qRef = <<>>
    /\ qLast = [op |-> "new", value |-> nullopt, threw |-> FALSE]

\* ================================================================= Heap
\* src/07-heap/heap.cc.  The vector tree is indexed from 0 in the code and
\* holds T{0} at index 0; At(t, i) is tree[i].
At(t, i) == t[i + 1]
Swap(t, i, j) ==
    [t EXCEPT ![i + 1] = t[j + 1], ![j + 1] = t[i + 1]]

\* Less: std::less<T> or std::greater<T>.
LessKinds == {"less", "greater"}
Less(l, a, b) == IF l = "less" THEN a < b ELSE a > b

\* Lines 74-85.
RECURSIVE bubbleUp(_, _, _)
bubbleUp(t, l, ind) ==
    LET parent == ind \div 2 IN
    IF parent < 1 THEN t
    ELSE IF Less(l, At(t, ind), At(t, parent))
         THEN bubbleUp(Swap(t, ind, parent), l, parent)
         ELSE t

\* Mutant: bubbleDown looks at the left child only.
RECURSIVE bubbleDownLeftOnly(_, _, _)
bubbleDownLeftOnly(t, l, ind) ==
    LET lchild == ind * 2 IN
    IF lchild >= Len(t) THEN t
    ELSE IF Less(l, At(t, lchild), At(t, ind))
         THEN bubbleDownLeftOnly(Swap(t, ind, lchild), l, lchild)
         ELSE t

\* Lines 88-103.
RECURSIVE bubbleDown(_, _, _)
bubbleDown(t, l, ind) ==
    LET lchild == ind * 2 IN
    IF lchild >= Len(t) THEN t
    ELSE LET min == IF /\ lchild + 1 < Len(t)
                       /\ Less(l, At(t, lchild + 1), At(t, lchild))
                    THEN lchild + 1 ELSE lchild
         IN  IF Less(l, At(t, min), At(t, ind))
             THEN bubbleDown(Swap(t, ind, min), l, min)
             ELSE t

\* Lines 62-65: size() is tree.size() - 1.
HeapSize(t) == Len(t) - 1

\* Lines 32-36.
HeapPush(t, l, v) == bubbleUp(Append(t, v), l, Len(t))

\* Line 44: what front() returns when it does not throw.
HeapFront(t) == At(t, 1)

\* Lines 53-58: pop_front of a heap that is not empty.
HeapPopFront(t, l) ==
    LET t1 == Swap(t, 1, Len(t) - 1)
        t2 == SubSeq(t1, 1, Len(t1) - 1)
    IN  IF HeapSize(t2) > 1 THEN bubbleDown(t2, l, 1) ELSE t2

\* The reference: the least value under l of a multiset that is not empty,
\* and the multiset of the values in the tree.
RefLeast(m, l) ==
    CHOOSE x \in Elems :
        m[x] > 0 /\ \A y \in Elems : m[y] > 0 => ~Less(l, y, x)
TreeCount(t) ==
    [x \in Elems |-> Cardinality({i \in 1..HeapSize(t) : At(t, i) = x})]

\* Heap() = default, with Less chosen by the template argument.
HeapInit(l) ==
    /\ tree = <<0>>
    /\ less = l
    /\ hRef = [x \in Elems |-> 0]
    /\ pLast = [op |-> "new", value |-> nullopt, threw |-> FALSE]

\* ============================================================ UnionFind
\* src/11-union-find/union_find.cc.
NumIds == 3
MaxCount == 4     \* the sizes recorded stay at or below MaxCount

\* ObjectID: the ids passed to add.
Ids == 1..NumIds

\* operator[] of std::unordered_map as an assignment.
MapPut(f, k, v) == [x \in DOMAIN f \cup {k} |-> IF x = k THEN v ELSE f[x]]

\* Lines 80-87.
RECURSIVE find_component(_, _)
find_component(c, id) ==
    IF c[id] = id THEN id ELSE find_component(c, c[id])

\* Lines 90-98.
RECURSIVE path_compression(_, _, _)
path_compression(c, path, comp) ==
    IF path = c[path] THEN c
    ELSE path_compression([c EXCEPT ![path] = comp], c[path], comp)

\* Lines 54-58: add(id).
UFadd(c, z, id) ==
    [components |-> MapPut(c, id, id), sizes |-> MapPut(z, id, 1)]

\* Lines 26-51: add(id1, id2).
UFaddPair(c, z, id1, id2) ==
    LET s1 == IF id1 \notin DOMAIN c THEN UFadd(c, z, id1)
              ELSE [components |-> c, sizes |-> z]
        comp1 == find_component(s1.components, id1)
        s2 == IF id2 \notin DOMAIN s1.components
              THEN UFadd(s1.components, s1.sizes, id2)
              ELSE s1
        comp2 == find_component(s2.components, id2)
        c2 == s2.components
        z2 == s2.sizes
    IN  IF comp1 = comp2 THEN s2
        ELSE IF z2[comp1] < z2[comp2]
        THEN [components |->
                  path_compression([c2 EXCEPT ![comp1] = comp2], id1, comp2),
              sizes |-> [z2 EXCEPT ![comp2] = z2[comp2] + z2[comp1]]]
        ELSE [components |->
                  path_compression([c2 EXCEPT ![comp2] = comp1], id2, comp1),
              sizes |-> [z2 EXCEPT ![comp1] = z2[comp1] + z2[comp2]]]

\* Lines 61-66 and 69-73, for ids that are in components.
is_member(c, id1, id2) == find_component(c, id1) = find_component(c, id2)
UFsize(c, z, id) == z[find_component(c, id)]

\* The reference: the ids that the pairs in ps connect to the ids in set,
\* by the reflexive, symmetric and transitive closure.
RECURSIVE Closure(_, _)
Closure(set, ps) ==
    LET more == set \cup {y \in Ids : \E x \in set : {x, y} \in ps}
    IN  IF more = set THEN set ELSE Closure(more, ps)
Connected(a, b, ps) == b \in Closure({a}, ps)

\* UnionFind() = default.
UfInit ==
    /\ components = <<>>
    /\ sizes = <<>>
    /\ uAdded = {}
    /\ uPairs = {}
    /\ uLast = [op |-> "new", ids |-> <<>>, ret |-> nullopt, threw |-> FALSE]

\* ================================================================ Deque
\* src/04-deque/deque.cc.  A node is [data, next, prev] at an address; next
\* is an owning pointer, prev and tail are raw pointers.  A raw pointer that
\* was never assigned, or whose node was freed, holds Invalid.
nullptr == 0
Invalid == -1

\* T: the values pushed, and the longest deque.
NumData == 2
MaxDeque == 3
Data == 1..NumData

\* std::make_unique<node<T>>: an address that is not in use.
NewNode(ns) ==
    CHOOSE a \in 1..(Cardinality(DOMAIN ns) + 1) :
        a \notin DOMAIN ns /\ \A b \in 1..(a - 1) : b \in DOMAIN ns

\* The nodes that the owning pointer a holds: a and what its next holds.
RECURSIVE Owned(_, _)
Owned(ns, a) ==
    IF a = nullptr THEN {} ELSE {a} \cup Owned(ns, ns[a].next)

\* The destructors of the nodes in gone have run: the nodes are freed and
\* the raw pointers to them are invalid.
Release(ns, gone) ==
    [a \in DOMAIN ns \ gone |->
        [ns[a] EXCEPT !.prev = IF @ \in gone THEN Invalid ELSE @]]

\* node(const T& data): data is set, next is empty, prev is not initialized.
Node(data) == [data |-> data, next |-> nullptr, prev |-> Invalid]

\* Lines 36-48.
DequePushBack(ns, h, t, n, data) ==
    LET a == NewNode(ns) IN
    IF h = nullptr
    THEN [nodes |-> MapPut(ns, a, Node(data)), head |-> a, tail |-> a,
          nelem |-> n + 1]
    ELSE LET gone == Owned(ns, ns[t].next)
             ns1 == MapPut([ns EXCEPT ![t].next = a], a,
                           [Node(data) EXCEPT !.prev = t])
         IN  [nodes |-> Release(ns1, gone), head |-> h, tail |-> a,
              nelem |-> n + 1]

\* Lines 76-88.
DequePushFront(ns, h, t, n, data) ==
    LET a == NewNode(ns) IN
    IF h = nullptr
    THEN [nodes |-> MapPut(ns, a, Node(data)), head |-> a, tail |-> a,
          nelem |-> n + 1]
    ELSE [nodes |-> MapPut(ns, a, [Node(data) EXCEPT !.next = h]),
          head |-> a, tail |-> t, nelem |-> n + 1]

\* Lines 65-72: pop_back of a deque with nelem > 0.  Reading a prev that is
\* Invalid is undefined behaviour.
DequePopBack(ns, h, t, n) ==
    IF h = t
    THEN [nodes |-> Release(ns, Owned(ns, h)), head |-> nullptr,
          tail |-> nullptr, nelem |-> n - 1, ub |-> FALSE]
    ELSE [nodes |-> ns, head |-> h, tail |-> ns[t].prev, nelem |-> n - 1,
          ub |-> ns[t].prev = Invalid]

\* Lines 104-112: pop_front of a deque with nelem > 0.
DequePopFront(ns, h, t, n) ==
    IF h = t
    THEN [nodes |-> Release(ns, Owned(ns, h)), head |-> nullptr,
          tail |-> nullptr, nelem |-> n - 1]
    ELSE [nodes |-> Release(ns, {h}), head |-> ns[h].next, tail |-> t,
          nelem |-> n - 1]

\* Lines 56 and 96: what back() and front() return when they do not throw.
DequeBackData(ns, t) == ns[t].data
DequeFrontData(ns, h) == ns[h].data

\* Deque() = default: head is empty, nelem is 0, tail is not initialized.
DqInit ==
    /\ nodes = <<>>
    /\ head = nullptr
    /\ tail = Invalid
    /\ nelem = 0
    /\ dRef = <<>>
    /\ dUb = FALSE
    /\ dLast = [op |-> "new", value |-> nullopt, threw |-> FALSE]

\* ================================================================ Graph
\* src/09-graph/graph.cc.  Graph::vertices maps a vertex to its adjacency
\* list, a std::forward_list kept as a sequence, front first.
NumVertices == 3
MaxEdges == 3
Vertices == 1..NumVertices

\* Lines 34-47: the adjacency list of from gets to at its front unless it
\* holds to already; a vertex without a list gets the list {to}.
ListEdge(g, from, to) ==
    IF from \in DOMAIN g
    THEN IF to \in Range(g[from]) THEN g
         ELSE [g EXCEPT ![from] = <<to>> \o @]
    ELSE MapPut(g, from, <<to>>)

\* Lines 51-56: a directed edge gives to an empty list when it has none.
ListTarget(g, to) == IF to \notin DOMAIN g THEN MapPut(g, to, <<>>) ELSE g

\* Lines 32-56: add_edge; the undirected call adds the edge back with
\* add_edge(to, from, true).
add_edge(g, from, to, directed) ==
    LET g1 == ListEdge(g, from, to) IN
    IF ~directed
    THEN ListTarget(ListEdge(g1, to, from), from)
    ELSE ListTarget(g1, to)

\* Mutant: a vertex is put on the queue without being marked discovered.
DiscoverNoMark(vs, from, d, q) ==
    [discovered |-> d,
     vertices |-> q \o [i \in DOMAIN SelectSeq(vs, LAMBDA v : v \notin d)
                           |-> <<from, SelectSeq(vs, LAMBDA v : v \notin d)[i]>>]]

\* Lines 76-82: the for loop over the adjacency list vs of vertex from; d is
\* discovered and q the queue of (from, to) pairs.
RECURSIVE Discover(_, _, _, _)
Discover(vs, from, d, q) ==
    IF vs = <<>> THEN [discovered |-> d, vertices |-> q]
    ELSE LET vto == Head(vs) IN
         IF vto \notin d
         THEN Discover(Tail(vs), from, d \cup {vto},
                       Append(q, <<from, vto>>))
         ELSE Discover(Tail(vs), from, d, q)

\* Lines 184-189: the visitor of the test, visited[to] = visited[from] + 1
\* for from != to; operator[] gives a key that is not in the map the value 0.
VisitFunc(visited, from, to) ==
    IF from # to
    THEN LET w == IF from \in DOMAIN visited THEN visited
                  ELSE MapPut(visited, from, 0)
         IN  MapPut(w, to, w[from] + 1)
    ELSE visited

\* Reference: the vertices within n hops of the set of vertices f, the
\* vertices reachable from start, and the hop distance of v from start.
Successors(g, f) == UNION {Range(g[v]) : v \in f \cap DOMAIN g}
RECURSIVE Within(_, _, _)
Within(g, f, n) ==
    IF n = 0 THEN f ELSE Within(g, f \cup Successors(g, f), n - 1)
Reachable(g, start) == Within(g, {start}, NumVertices)
Dist(g, start, v) ==
    CHOOSE n \in 0..NumVertices :
        /\ v \in Within(g, {start}, n)
        /\ \A m \in 0..(n - 1) : v \notin Within(g, {start}, m)

\* Graph() = default; bfs has not been called.
GraphInit ==
    /\ gVertices = <<>>
    /\ gCalls = 0
    /\ bPc = "build"
    /\ bStart = 0
    /\ bDiscovered = {}
    /\ bQueue = <<>>
    /\ bThrew = FALSE
    /\ bVisits = <<>>
    /\ bVisited = <<>>

\* ======================================================== LRU, continued
\* ------------------------------------------------------ reference models
\* The last n elements of s (all of s when it is shorter).
LastN(s, n) == IF Len(s) <= n THEN s ELSE SubSeq(s, Len(s) - n + 1, Len(s))

\* A touch of k makes k the most recently touched key; of the keys touched
\* so far the reference remembers the n most recently touched.
Touch(t, k, n) == LastN(Append(RemoveKey(t, k), k), n)

\* The values the reference remembers: those of the keys in t.
Remember(w, t) == [k \in Keys |-> IF k \in Range(t) THEN w[k] ELSE nullopt]

\* Where the call history stands in the scenario "on a fresh cache set up
\* to capacity + 1 pairwise distinct keys; or, once exactly capacity keys
\* are in, get the first one and then set a new key".  Any other call leaves
\* the scenario for good.
PhaseAfterGet(key) ==
    IF /\ phase = "filling"
       /\ fills # <<>>
       /\ Len(fills) = capacity_
       /\ key = fills[1]
    THEN "refreshed" ELSE "free"

PhaseAfterSet(key) ==
    IF key \in Range(fills) THEN "free"
    ELSE IF phase = "filling" /\ Len(fills) <= capacity_ THEN "filling"
    ELSE IF phase = "refreshed" THEN "evicted"
    ELSE "free"

\* Whether a call repeats the call recorded in last.
SameCall(op, key, value) ==
    last.op = op /\ last.key = key /\ last.value = value

\* No call has been made.
StepsInit ==
    /\ prog = "none"
    /\ pc = "idle"
    /\ call = [op |-> "new", key |-> 0, value |-> 0]
    /\ iter = 0
    /\ cnt = 0
    /\ buckets_cp = <<>>
    /\ pos = <<0, 0>>
    /\ rehashes = 0

\* ---------------------------------------------------------------- actions
\* The state that the constructors leave: LRU(size_t capacity), for which
\* op is "new", or "abort" when the assertion stopped the program;
\* Hashtable(); Heap() with the comparison l; and the other containers.
ConstructedWith(c, op, l) ==
    /\ capacity_ = c
    /\ cache = <<>>
    /\ order = <<>>
    /\ ub = FALSE
    /\ last = [op |-> op, key |-> 0, value |-> nullopt, ret |-> nullopt,
               found |-> FALSE, full |-> FALSE, again |-> FALSE]
    /\ touched = <<>>
    /\ written = [k \in Keys |-> nullopt]
    /\ phase = "filling"
    /\ fills = <<>>
    /\ HtInit
    /\ MsInit
    /\ MqInit
    /\ HeapInit(l)
    /\ UfInit
    /\ DqInit
    /\ GraphInit
    /\ StepsInit

Constructed(c, op) == ConstructedWith(c, op, "less")

\* LRU(size_t capacity) called as its assertion requires, capacity > 0.
Init == \E c \in Capacities : Constructed(c, "new")

\* assert(capacity > 0) stops the program when it fails, unless the build
\* defines NDEBUG: <cassert> then expands assert to nothing.
AssertStops(c, ndebug) == ~ndebug /\ ~(c > 0)

\* LRU(size_t capacity) called with any capacity, in either build.
InitCtor ==
    \E c \in 0..MaxCap, ndebug \in BOOLEAN :
        Constructed(c, IF AssertStops(c, ndebug) THEN "abort" ELSE "new")

\* Calls can be made while the program runs: it was not stopped by the
\* assertion, and it has not executed undefined behaviour, after which
\* nothing is known about it.
Running == last.op # "abort" /\ ~ub

get(key) ==
    LET r == LRUget(cache, order, key) IN
    /\ cache' = r.cache
    /\ order' = r.order
    /\ ub' = (ub \/ r.ub)
    /\ last' = [op |-> "get", key |-> key, value |-> nullopt, ret |-> r.ret,
                found |-> MapFind(cache, key),
                full |-> MapSize(cache) = capacity_, again |-> FALSE]
    /\ touched' = IF r.ret # nullopt THEN Touch(touched, key, capacity_)
                  ELSE touched
    /\ written' = Remember(written, touched')
    /\ phase' = PhaseAfterGet(key)
    /\ fills' = IF phase' = "free" THEN <<>> ELSE fills
    /\ UNCHANGED capacity_
    /\ UNCHANGED <<hvars, cvars, nvars>>

set(key, value) ==
    LET r == LRUset(cache, order, capacity_, key, value) IN
    /\ cache' = r.cache
    /\ order' = r.order
    /\ ub' = (ub \/ r.ub)
    /\ last' = [op |-> "set", key |-> key, value |-> Some(value),
                ret |-> nullopt, found |-> MapFind(cache, key),
                full |-> MapSize(cache) = capacity_,
                again |-> SameCall("set", key, Some(value))]
    /\ touched' = Touch(touched, key, capacity_)
    /\ written' = Remember([written EXCEPT ![key] = Some(value)], touched')
    /\ phase' = PhaseAfterSet(key)
    /\ fills' = IF phase' = "free" THEN <<>>
                ELSE Append(fills, key)
    /\ UNCHANGED capacity_
    /\ UNCHANGED <<hvars, cvars, nvars>>

Next ==
    \/ \E key \in Keys : get(key)
    \/ \E key \in Keys, value \in Values : set(key, value)

\* ---------------------------------------------------- Hashtable actions
insert(k, v) ==
    LET r == HTinsert(buckets, nelems, k, v) IN
    /\ buckets' = r.buckets
    /\ nelems' = r.nelems
    /\ hlast' = [op |-> "insert", key |-> k, value |-> Some(v),
                 ret |-> nullopt, had |-> HTfind(buckets, k) # nullopt,
                 grew |-> Len(r.buckets) # Len(buckets)]
    /\ href' = [href EXCEPT ![k] = Some(v)]
    /\ UNCHANGED <<vars, cvars, nvars>>

\* Mutant: find moves the entry it found to the front of its chain.
findMovesToFront(k) ==
    LET h == BucketOf(k, Len(buckets))
        entry == ChainFind(buckets[h], k)
    IN  /\ hlast' = [op |-> "find", key |-> k, value |-> nullopt,
                     ret |-> HTfind(buckets, k),
                     had |-> HTfind(buckets, k) # nullopt, grew |-> FALSE]
        /\ buckets' = IF entry = 0 THEN buckets
                      ELSE [buckets EXCEPT ![h] =
                               ChainPushFront(ChainRemoveIf(@, k), @[entry])]
        /\ UNCHANGED <<nelems, href>>
        /\ UNCHANGED <<vars, cvars, nvars>>

find(k) ==
    /\ hlast' = [op |-> "find", key |-> k, value |-> nullopt,
                 ret |-> HTfind(buckets, k),
                 had |-> HTfind(buckets, k) # nullopt, grew |-> FALSE]
    /\ UNCHANGED <<buckets, nelems, href>>
    /\ UNCHANGED <<vars, cvars, nvars>>

erase(k) ==
    LET r == HTerase(buckets, nelems, k) IN
    /\ buckets' = r.buckets
    /\ nelems' = r.nelems
    /\ hlast' = [op |-> "erase", key |-> k, value |-> nullopt,
                 ret |-> nullopt, had |-> HTfind(buckets, k) # nullopt,
                 grew |-> FALSE]
    /\ href' = [href EXCEPT ![k] = nullopt]
    /\ UNCHANGED <<vars, cvars, nvars>>

HtNext ==
    \/ \E k \in HKeys, v \in HValues : insert(k, v)
    \/ \E k \in HKeys : find(k)
    \/ \E k \in HKeys : erase(k)

\* The same call made on both tables.
twin_insert(k, v) ==
    LET r == HTinsert(buckets, nelems, k, v)
        r2 == HTinsert(buckets2, nelems2, Renamed(k), v)
    IN  /\ buckets' = r.buckets
        /\ nelems' = r.nelems
        /\ buckets2' = r2.buckets
        /\ nelems2' = r2.nelems
        /\ href' = [href EXCEPT ![k] = Some(v)]
        /\ UNCHANGED <<hlast, tSame>>
        /\ UNCHANGED <<vars, cvars, cnvars, gvars, stvars>>

twin_find(k) ==
    /\ tSame' = (tSame /\ HTfind(buckets, k) = HTfind(buckets2, Renamed(k)))
    /\ UNCHANGED <<hvars, buckets2, nelems2>>
    /\ UNCHANGED <<vars, cvars, cnvars, gvars, stvars>>

twin_erase(k) ==
    LET r == HTerase(buckets, nelems, k)
        r2 == HTerase(buckets2, nelems2, Renamed(k))
    IN  /\ buckets' = r.buckets
        /\ nelems' = r.nelems
        /\ buckets2' = r2.buckets
        /\ nelems2' = r2.nelems
        /\ href' = [href EXCEPT ![k] = nullopt]
        /\ UNCHANGED <<hlast, tSame>>
        /\ UNCHANGED <<vars, cvars, cnvars, gvars, stvars>>

TwinNext ==
    \/ \E k \in TwinKeys, v \in HValues : twin_insert(k, v)
    \/ \E k \in TwinKeys : twin_find(k)
    \/ \E k \in TwinKeys : twin_erase(k)

\* insert(k, v) of a key that is not in the table, followed by erase(k).
insert_erase(k, v) ==
    LET r == HTinsert(buckets, nelems, k, v)
        e == HTerase(r.buckets, r.nelems, k)
    IN  /\ HTfind(buckets, k) = nullopt
        /\ buckets' = e.buckets
        /\ nelems' = e.nelems
        /\ hlast' = [op |-> "insert_erase", key |-> k, value |-> Some(v),
                     ret |-> nullopt, had |-> FALSE,
                     grew |-> Len(r.buckets) # Len(buckets)]
        /\ href' = [href EXCEPT ![k] = nullopt]
        /\ UNCHANGED <<vars, cvars, nvars>>

RoundNext ==
    \/ \E k \in HKeys, v \in HValues : insert(k, v)
    \/ \E k \in HKeys : erase(k)
    \/ \E k \in HKeys, v \in HValues : insert_erase(k, v)

\* ------------------------------------------- Hashtable, counters only
\* The largest stride 2^j for which the next 2 * 2^j - 1 inserts of new keys
\* all stay below the load factor; 1 when there is none.
Stride(n, nb) ==
    LET quiet == {j \in 0..(MaxBucketExp - 3) : ~LoadReached(n + 2 * 2^j - 1, nb)}
    IN  IF quiet = {} THEN 1
        ELSE 2^(CHOOSE j \in quiet : \A i \in quiet : i <= j)

\* m calls of insert, each with a key that is not in the table.  The first
\* m - 1 of them find the load factor not reached and leave the bucket
\* count alone (ToFloat never decreases when its argument grows, so it is
\* enough that the last of them does); the m-th is lines 46-50.
insertDistinct(m) ==
    /\ cnbuckets < 2^MaxBucketExp
    /\ m > 1 => ~LoadReached(cnelems + m - 1, cnbuckets)
    /\ cnelems' = CountAfterNew(cnelems + m - 1)
    /\ cnbuckets' = BucketsAfterNew(cnelems + m - 1, cnbuckets)
    /\ UNCHANGED <<vars, hvars, nvars>>

\* Key by key for as many keys as the rehash test inserts, in strides after.
NextLoad ==
    \/ cnelems < NumTestKeys /\ insertDistinct(1)
    \/ \E m \in {Stride(cnelems, cnbuckets)} : insertDistinct(m)

\* m calls of erase, each with a key that is in the table: lines 84-86 on
\* the counters.
eraseStored(m) ==
    /\ m >= 1
    /\ m <= cnelems
    /\ cnelems' = cnelems - m
    /\ UNCHANGED cnbuckets
    /\ UNCHANGED <<vars, hvars, nvars>>

\* Inserts as in NextLoad; erases key by key while the table is small, and
\* of every key at once.
NextCount ==
    \/ NextLoad
    \/ cnelems <= NumTestKeys /\ eraseStored(1)
    \/ \E m \in {cnelems} : eraseStored(m)

\* ------------------------------------------- Hashtable, step by step
\* What the other programs hold is left alone.
HtStepFrame ==
    /\ UNCHANGED <<hlast, href>>
    /\ UNCHANGED <<vars, cvars, cnvars, gvars, twvars>>

\* The chain of the key of the call.
CallChain == buckets[BucketOf(call.key, Len(buckets))]

\* Mutant: the loop does not advance its iterator.
NextIterStuck(i) == i

\* ++first of std::find_if, the step of remove_if and of a range-based for.
NextIter(i) == i + 1

\* A call of insert, find or erase: lines 40-42, 61-63, 73-76.
ht_call(op, k, v) ==
    /\ prog \in {"none", "hashtable"}
    /\ pc = "idle"
    /\ prog' = "hashtable"
    /\ pc' = IF op = "erase" THEN "remove_if" ELSE "find_if"
    /\ call' = [op |-> op, key |-> k, value |-> v,
                buckets |-> buckets, nelems |-> nelems]
    /\ iter' = 1
    /\ cnt' = 0
    /\ rehashes' = 0
    /\ UNCHANGED <<buckets, nelems, buckets_cp, pos>>
    /\ HtStepFrame

\* Lines 121-123: one turn of the loop of std::find_if; find returns when
\* the loop ends (lines 64-67).
ht_find_if ==
    /\ pc = "find_if"
    /\ IF iter <= Len(CallChain) /\ CallChain[iter].key # call.key
       THEN /\ iter' = NextIter(iter)
            /\ UNCHANGED pc
       ELSE /\ pc' = IF call.op = "insert" THEN "found" ELSE "idle"
            /\ UNCHANGED iter
    /\ UNCHANGED <<buckets, nelems, prog, call, cnt, buckets_cp, pos,
                   rehashes>>
    /\ HtStepFrame

\* Lines 43-55: the entry that find returned is std::end(b) or the entry of
\* the key.
ht_found ==
    /\ pc = "found"
    /\ LET h == BucketOf(call.key, Len(buckets))
           e == [key |-> call.key, value |-> call.value]
       IN  IF iter > Len(CallChain)
           THEN /\ buckets' = [buckets EXCEPT ![h] = ChainPushFront(@, e)]
                /\ nelems' = nelems + 1
                /\ IF LoadReached(nelems', Len(buckets))
                   THEN /\ pc' = "rehash"
                        /\ buckets_cp' = [i \in 1..(Len(buckets) * 2) |-> <<>>]
                        /\ pos' = <<1, 1>>
                        /\ rehashes' = rehashes + 1
                   ELSE /\ pc' = "idle"
                        /\ UNCHANGED <<buckets_cp, pos, rehashes>>
           ELSE /\ buckets' = [buckets EXCEPT ![h][iter].value = call.value]
                /\ pc' = "idle"
                /\ UNCHANGED <<nelems, buckets_cp, pos, rehashes>>
    /\ UNCHANGED <<prog, call, iter, cnt>>
    /\ HtStepFrame

\* Lines 132-138: one turn of the inner loop of rehash, the step of the
\* outer loop to the next bucket, or the swap after the loops.
ht_rehash ==
    /\ pc = "rehash"
    /\ LET b == pos[1]
           e == pos[2]
       IN  IF b > Len(buckets)
           THEN /\ buckets' = buckets_cp
                /\ buckets_cp' = <<>>
                /\ pos' = <<0, 0>>
                /\ pc' = "idle"
           ELSE IF e > Len(buckets[b])
           THEN /\ pos' = <<NextIter(b), 1>>
                /\ UNCHANGED <<buckets, buckets_cp, pc>>
           ELSE /\ buckets_cp' =
                       [buckets_cp EXCEPT
                           ![BucketOf(buckets[b][e].key, Len(buckets_cp))] =
                               ChainPushFront(@, buckets[b][e])]
                /\ pos' = <<b, NextIter(e)>>
                /\ UNCHANGED <<buckets, pc>>
    /\ UNCHANGED <<nelems, prog, call, iter, cnt, rehashes>>
    /\ HtStepFrame

\* Lines 76-87: one turn of the loop of remove_if, which unlinks an entry
\* whose key equals k; after the loop nelems drops when count is not 0.
ht_remove_if ==
    /\ pc = "remove_if"
    /\ LET h == BucketOf(call.key, Len(buckets)) IN
       IF iter > Len(CallChain)
       THEN /\ nelems' = IF cnt # 0 THEN nelems - 1 ELSE nelems
            /\ pc' = "idle"
            /\ UNCHANGED <<buckets, iter, cnt>>
       ELSE IF CallChain[iter].key = call.key
       THEN /\ buckets' = [buckets EXCEPT ![h] =
                              SubSeq(@, 1, iter - 1) \o SubSeq(@, iter + 1, Len(@))]
            /\ cnt' = cnt + 1
            /\ UNCHANGED <<nelems, pc, iter>>
       ELSE /\ iter' = NextIter(iter)
            /\ UNCHANGED <<buckets, nelems, pc, cnt>>
    /\ UNCHANGED <<prog, call, buckets_cp, pos, rehashes>>
    /\ HtStepFrame

\* ------------------------------------------------- LRU, step by step
LruStepFrame ==
    /\ UNCHANGED <<capacity_, last, touched, written, phase, fills>>
    /\ UNCHANGED <<hvars, cvars, cnvars, gvars, twvars>>
    /\ UNCHANGED <<prog, call, iter, cnt, buckets_cp, pos, rehashes>>

\* A call of get or set.
lru_call(op, key, value) ==
    /\ prog \in {"none", "lru"}
    /\ pc = "idle"
    /\ prog' = "lru"
    /\ pc' = "cache_find"
    /\ call' = [op |-> op, key |-> key, value |-> value]
    /\ UNCHANGED <<cache, order, ub>>
    /\ UNCHANGED <<capacity_, last, touched, written, phase, fills>>
    /\ UNCHANGED <<hvars, cvars, cnvars, gvars, twvars>>
    /\ UNCHANGED <<iter, cnt, buckets_cp, pos, rehashes>>

\* Lines 36-39 and 49-50: cache.find(key) and the test of its result.
lru_find ==
    /\ pc = "cache_find"
    /\ pc' = IF MapFind(cache, call.key) THEN "refresh"
             ELSE IF call.op = "get" THEN "idle"
             ELSE "evict"
    /\ UNCHANGED <<cache, order, ub>>
    /\ LruStepFrame

\* Lines 41-43 and 63-65: the key is in the cache.
lru_refresh ==
    /\ pc = "refresh"
    /\ LET r == IF call.op = "get" THEN GetFound(cache, order, call.key)
                ELSE SetPresent(cache, order, call.key, call.value)
       IN  /\ cache' = r.cache
           /\ order' = r.order
           /\ ub' = (ub \/ r.ub)
    /\ pc' = "idle"
    /\ LruStepFrame

\* Lines 52-56: the eviction from a full cache.
lru_evict ==
    /\ pc = "evict"
    /\ LET r == Evict(cache, order, capacity_)
       IN  /\ cache' = r.cache
           /\ order' = r.order
           /\ ub' = (ub \/ r.ub)
    /\ pc' = "emplace"
    /\ LruStepFrame

\* Lines 57-60: the new entry.
lru_emplace ==
    /\ pc = "emplace"
    /\ LET o2 == ListInsertEnd(order, call.key)
       IN  /\ order' = o2
           /\ cache' = MapEmplace(cache, call.key,
                                  [first |-> call.value, second |-> Last(o2).it])
    /\ pc' = "idle"
    /\ UNCHANGED ub
    /\ LruStepFrame

\* The steps of a call that was made, and the calls.
StepsRun ==
    \/ ht_find_if
    \/ ht_found
    \/ ht_rehash
    \/ ht_remove_if
    \/ lru_find
    \/ lru_refresh
    \/ lru_evict
    \/ lru_emplace

StepsNext ==
    \/ \E op \in {"insert", "find", "erase"}, k \in TwinKeys :
          ht_call(op, k, CHOOSE v \in HValues : TRUE)
    \/ \E key \in Keys : lru_call("get", key, CHOOSE v \in Values : TRUE)
    \/ \E key \in Keys, value \in Values : lru_call("set", key, value)
    \/ ht_find_if
    \/ ht_found
    \/ ht_rehash
    \/ ht_remove_if
    \/ lru_find
    \/ lru_refresh
    \/ lru_evict
    \/ lru_emplace

\* ------------------------------------------------------ MaxStack actions
\* What a call leaves in sLast or qLast: its name, the value it pushed,
\* removed or returned, and whether it threw.
Called(op, value, threw) == [op |-> op, value |-> value, threw |-> threw]

MaxStack_push(v) ==
    LET r == MaxStackPush(sElems, sMaxv, v) IN
    /\ Len(sElems) < MaxSize
    /\ sElems' = r.elems
    /\ sMaxv' = r.maxv
    /\ sRef' = Append(sRef, v)
    /\ sLast' = Called("push", Some(v), FALSE)
    /\ UNCHANGED <<ovars, xvars, mqvars, hpvars, ufvars, dqvars>>

MaxStack_pop ==
    /\ IF sElems = <<>>
       THEN /\ sLast' = Called("pop", nullopt, TRUE)
            /\ UNCHANGED <<sElems, sMaxv, sRef>>
       ELSE LET r == MaxStackPop(sElems, sMaxv) IN
            /\ sElems' = r.elems
            /\ sMaxv' = r.maxv
            /\ sRef' = SubSeq(sRef, 1, Len(sRef) - 1)
            /\ sLast' = Called("pop", Some(sRef[Len(sRef)]), FALSE)
    /\ UNCHANGED <<ovars, xvars, mqvars, hpvars, ufvars, dqvars>>

MaxStack_top ==
    /\ sLast' = IF sElems = <<>> THEN Called("top", nullopt, TRUE)
                ELSE Called("top", Some(MaxStackTop(sElems)), FALSE)
    /\ UNCHANGED <<sElems, sMaxv, sRef>>
    /\ UNCHANGED <<ovars, xvars, mqvars, hpvars, ufvars, dqvars>>

MaxStack_max ==
    /\ sLast' = IF sElems = <<>> THEN Called("max", nullopt, TRUE)
                ELSE Called("max", Some(MaxStackMax(sMaxv)), FALSE)
    /\ UNCHANGED <<sElems, sMaxv, sRef>>
    /\ UNCHANGED <<ovars, xvars, mqvars, hpvars, ufvars, dqvars>>

MsNext ==
    \/ \E v \in Elems : MaxStack_push(v)
    \/ MaxStack_pop
    \/ MaxStack_top
    \/ MaxStack_max

\* ------------------------------------------------------ MaxQueue actions
MaxQueue_push(v) ==
    LET r == MaxQueuePush(qElems, qMaxv, v) IN
    /\ Len(qElems) < MaxSize
    /\ qElems' = r.elems
    /\ qMaxv' = r.maxv
    /\ qRef' = Append(qRef, v)
    /\ qLast' = Called("push", Some(v), FALSE)
    /\ UNCHANGED <<ovars, xvars, msvars, hpvars, ufvars, dqvars>>

MaxQueue_pop ==
    /\ IF qElems = <<>>
       THEN /\ qLast' = Called("pop", nullopt, TRUE)
            /\ UNCHANGED <<qElems, qMaxv, qRef>>
       ELSE LET r == MaxQueuePop(qElems, qMaxv) IN
            /\ qElems' = r.elems
            /\ qMaxv' = r.maxv
            /\ qRef' = Tail(qRef)
            /\ qLast' = Called("pop", Some(Head(qRef)), FALSE)
    /\ UNCHANGED <<ovars, xvars, msvars, hpvars, ufvars, dqvars>>

MaxQueue_front ==
    /\ qLast' = IF qElems = <<>> THEN Called("front", nullopt, TRUE)
                ELSE Called("front", Some(MaxQueueFront(qElems)), FALSE)
    /\ UNCHANGED <<qElems, qMaxv, qRef>>
    /\ UNCHANGED <<ovars, xvars, msvars, hpvars, ufvars, dqvars>>

MaxQueue_max ==
    /\ qLast' = IF qElems = <<>> THEN Called("max", nullopt, TRUE)
                ELSE Called("max", Some(MaxQueueMax(qMaxv)), FALSE)
    /\ UNCHANGED <<qElems, qMaxv, qRef>>
    /\ UNCHANGED <<ovars, xvars, msvars, hpvars, ufvars, dqvars>>

MqNext ==
    \/ \E v \in Elems : MaxQueue_push(v)
    \/ MaxQueue_pop
    \/ MaxQueue_front
    \/ MaxQueue_max

\* ---------------------------------------------------------- Heap actions
Heap_push(v) ==
    /\ HeapSize(tree) < MaxSize
    /\ tree' = HeapPush(tree, less, v)
    /\ hRef' = [hRef EXCEPT ![v] = @ + 1]
    /\ pLast' = Called("push", Some(v), FALSE)
    /\ UNCHANGED less
    /\ UNCHANGED <<ovars, xvars, msvars, mqvars, ufvars, dqvars>>

Heap_front ==
    /\ pLast' = IF HeapSize(tree) < 1 THEN Called("front", nullopt, TRUE)
                ELSE Called("front", Some(HeapFront(tree)), FALSE)
    /\ UNCHANGED <<tree, less, hRef>>
    /\ UNCHANGED <<ovars, xvars, msvars, mqvars, ufvars, dqvars>>

\* Mutant: pop_front does not test for an empty heap.
Heap_pop_front_unchecked ==
    /\ IF HeapSize(tree) < 1
       THEN /\ tree' = SubSeq(tree, 1, Len(tree) - 1)
            /\ pLast' = Called("pop_front", nullopt, FALSE)
            /\ UNCHANGED hRef
       ELSE /\ tree' = HeapPopFront(tree, less)
            /\ hRef' = [hRef EXCEPT ![RefLeast(hRef, less)] = @ - 1]
            /\ pLast' = Called("pop_front", Some(RefLeast(hRef, less)), FALSE)
    /\ UNCHANGED less
    /\ UNCHANGED <<ovars, xvars, msvars, mqvars, ufvars, dqvars>>

Heap_pop_front ==
    /\ IF HeapSize(tree) < 1
       THEN /\ pLast' = Called("pop_front", nullopt, TRUE)
            /\ UNCHANGED <<tree, hRef>>
       ELSE /\ tree' = HeapPopFront(tree, less)
            /\ hRef' = [hRef EXCEPT ![RefLeast(hRef, less)] = @ - 1]
            /\ pLast' = Called("pop_front", Some(RefLeast(hRef, less)), FALSE)
    /\ UNCHANGED less
    /\ UNCHANGED <<ovars, xvars, msvars, mqvars, ufvars, dqvars>>

HeapNext ==
    \/ \E v \in Elems : Heap_push(v)
    \/ Heap_front
    \/ Heap_pop_front

\* ----------------------------------------------------- UnionFind actions
UCalled(op, ids, ret, threw) ==
    [op |-> op, ids |-> ids, ret |-> ret, threw |-> threw]

UnionFind_add(id) ==
    LET r == UFadd(components, sizes, id) IN
    /\ components' = r.components
    /\ sizes' = r.sizes
    /\ uAdded' = uAdded \cup {id}
    /\ uLast' = UCalled("add", <<id>>, nullopt, FALSE)
    /\ UNCHANGED uPairs
    /\ UNCHANGED <<ovars, xvars, msvars, mqvars, hpvars, dqvars>>

UnionFind_add_pair(id1, id2) ==
    LET r == UFaddPair(components, sizes, id1, id2) IN
    /\ \A id \in DOMAIN r.sizes : r.sizes[id] <= MaxCount
    /\ components' = r.components
    /\ sizes' = r.sizes
    /\ uAdded' = uAdded \cup {id1, id2}
    /\ uPairs' = uPairs \cup {{id1, id2}}
    /\ uLast' = UCalled("add_pair", <<id1, id2>>, nullopt, FALSE)
    /\ UNCHANGED <<ovars, xvars, msvars, mqvars, hpvars, dqvars>>

\* find_component reads components.at(id), which throws std::out_of_range
\* for an id that is not in the map.
UnionFind_is_member(id1, id2) ==
    /\ uLast' = IF {id1, id2} \subseteq DOMAIN components
                THEN UCalled("is_member", <<id1, id2>>,
                             Some(is_member(components, id1, id2)), FALSE)
                ELSE UCalled("is_member", <<id1, id2>>, nullopt, TRUE)
    /\ UNCHANGED <<components, sizes, uAdded, uPairs>>
    /\ UNCHANGED <<ovars, xvars, msvars, mqvars, hpvars, dqvars>>

UnionFind_size(id) ==
    /\ uLast' = IF id \in DOMAIN components
                THEN UCalled("size", <<id>>,
                             Some(UFsize(components, sizes, id)), FALSE)
                ELSE UCalled("size", <<id>>, nullopt, TRUE)
    /\ UNCHANGED <<components, sizes, uAdded, uPairs>>
    /\ UNCHANGED <<ovars, xvars, msvars, mqvars, hpvars, dqvars>>

UfNext ==
    \/ \E id \in Ids : UnionFind_add(id)
    \/ \E id1, id2 \in Ids : UnionFind_add_pair(id1, id2)
    \/ \E id1, id2 \in Ids : UnionFind_is_member(id1, id2)
    \/ \E id \in Ids : UnionFind_size(id)

\* --------------------------------------------------------- Deque actions
\* The values a pointer can hold.
Pointers(ns) == DOMAIN ns \cup {nullptr, Invalid}

Deque_push_back(data) ==
    LET r == DequePushBack(nodes, head, tail, nelem, data) IN
    /\ ~dUb
    /\ Len(dRef) < MaxDeque
    /\ nodes' = r.nodes /\ head' = r.head /\ tail' = r.tail
    /\ nelem' = r.nelem
    /\ dRef' = Append(dRef, data)
    /\ dLast' = Called("push_back", Some(data), FALSE)
    /\ UNCHANGED dUb
    /\ UNCHANGED <<ovars, xvars, msvars, mqvars, hpvars, ufvars>>

Deque_push_front(data) ==
    LET r == DequePushFront(nodes, head, tail, nelem, data) IN
    /\ ~dUb
    /\ Len(dRef) < MaxDeque
    /\ nodes' = r.nodes /\ head' = r.head /\ tail' = r.tail
    /\ nelem' = r.nelem
    /\ dRef' = <<data>> \o dRef
    /\ dLast' = Called("push_front", Some(data), FALSE)
    /\ UNCHANGED dUb
    /\ UNCHANGED <<ovars, xvars, msvars, mqvars, hpvars, ufvars>>

\* After the read of an invalid prev the pointer stored in tail is any
\* pointer value.
Deque_pop_back ==
    /\ ~dUb
    /\ IF nelem = 0
       THEN /\ dLast' = Called("pop_back", nullopt, TRUE)
            /\ UNCHANGED <<nodes, head, tail, nelem, dRef, dUb>>
       ELSE LET r == DequePopBack(nodes, head, tail, nelem) IN
            /\ nodes' = r.nodes /\ head' = r.head /\ nelem' = r.nelem
            /\ dUb' = r.ub
            /\ IF r.ub THEN tail' \in Pointers(nodes) ELSE tail' = r.tail
            /\ dRef' = SubSeq(dRef, 1, Len(dRef) - 1)
            /\ dLast' = Called("pop_back", Some(dRef[Len(dRef)]), FALSE)
    /\ UNCHANGED <<ovars, xvars, msvars, mqvars, hpvars, ufvars>>

Deque_pop_front ==
    /\ ~dUb
    /\ IF nelem = 0
       THEN /\ dLast' = Called("pop_front", nullopt, TRUE)
            /\ UNCHANGED <<nodes, head, tail, nelem, dRef, dUb>>
       ELSE LET r == DequePopFront(nodes, head, tail, nelem) IN
            /\ nodes' = r.nodes /\ head' = r.head /\ tail' = r.tail
            /\ nelem' = r.nelem
            /\ dRef' = Tail(dRef)
            /\ dLast' = Called("pop_front", Some(Head(dRef)), FALSE)
            /\ UNCHANGED dUb
    /\ UNCHANGED <<ovars, xvars, msvars, mqvars, hpvars, ufvars>>

Deque_back ==
    /\ ~dUb
    /\ dLast' = IF nelem = 0 THEN Called("back", nullopt, TRUE)
                ELSE Called("back", Some(DequeBackData(nodes, tail)), FALSE)
    /\ UNCHANGED <<nodes, head, tail, nelem, dRef, dUb>>
    /\ UNCHANGED <<ovars, xvars, msvars, mqvars, hpvars, ufvars>>

Deque_front ==
    /\ ~dUb
    /\ dLast' = IF nelem = 0 THEN Called("front", nullopt, TRUE)
                ELSE Called("front", Some(DequeFrontData(nodes, head)), FALSE)
    /\ UNCHANGED <<nodes, head, tail, nelem, dRef, dUb>>
    /\ UNCHANGED <<ovars, xvars, msvars, mqvars, hpvars, ufvars>>

DqNext ==
    \/ \E data \in Data : Deque_push_back(data)
    \/ \E data \in Data : Deque_push_front(data)
    \/ Deque_pop_back
    \/ Deque_pop_front
    \/ Deque_back
    \/ Deque_front

\* --------------------------------------------------------- Graph actions
\* The test builds the graph with add_edge before it calls bfs.
Graph_add_edge(from, to, directed) ==
    /\ bPc = "build"
    /\ gCalls < MaxEdges
    /\ gVertices' = add_edge(gVertices, from, to, directed)
    /\ gCalls' = gCalls + 1
    /\ UNCHANGED <<bPc, bStart, bDiscovered, bQueue, bThrew, bVisits,
                   bVisited>>
    /\ UNCHANGED <<ovars, cnvars, twvars, stvars>>

\* Lines 66-70: bfs(graph, start, visit) up to the while loop.
bfs_call(start) ==
    /\ bPc = "build"
    /\ bPc' = "while"
    /\ bStart' = start
    /\ bQueue' = <<<<start, start>>>>
    /\ bDiscovered' = {start}
    /\ UNCHANGED <<gVertices, gCalls, bThrew, bVisits, bVisited>>
    /\ UNCHANGED <<ovars, cnvars, twvars, stvars>>

\* Lines 72-83: one iteration of the while loop.  graph.vertices.at throws
\* std::out_of_range for a vertex that is not in the graph, after visit was
\* called.
bfs_iterate ==
    /\ bPc = "while"
    /\ bQueue # <<>>
    /\ LET vpair == Head(bQueue)
           q == Tail(bQueue)
       IN  /\ bVisits' = Append(bVisits, vpair)
           /\ bVisited' = VisitFunc(bVisited, vpair[1], vpair[2])
           /\ IF vpair[2] \in DOMAIN gVertices
              THEN LET r == Discover(gVertices[vpair[2]], vpair[2],
                                     bDiscovered, q)
                   IN  /\ bDiscovered' = r.discovered
                       /\ bQueue' = r.vertices
                       /\ UNCHANGED <<bPc, bThrew>>
              ELSE /\ bPc' = "done"
                   /\ bThrew' = TRUE
                   /\ bQueue' = q
                   /\ UNCHANGED bDiscovered
    /\ UNCHANGED <<gVertices, gCalls, bStart>>
    /\ UNCHANGED <<ovars, cnvars, twvars, stvars>>

\* Line 72: the queue is empty and bfs returns.
bfs_return ==
    /\ bPc = "while"
    /\ bQueue = <<>>
    /\ bPc' = "done"
    /\ UNCHANGED <<gVertices, gCalls, bStart, bDiscovered, bQueue, bThrew,
                   bVisits, bVisited>>
    /\ UNCHANGED <<ovars, cnvars, twvars, stvars>>

bfs_step == bfs_iterate \/ bfs_return

BfsNext ==
    \/ \E from, to \in Vertices, directed \in BOOLEAN :
          Graph_add_edge(from, to, directed)
    \/ \E start \in Vertices : bfs_call(start)
    \/ bfs_iterate
    \/ bfs_return

\* ------------------------------------------------------- specifications
allvars == <<vars, hvars, cvars, nvars>>

\* A cache on its own; the table is constructed and left alone.
Spec == Init /\ [][Next]_allvars

\* A cache constructed with any capacity, in a build with or without NDEBUG.
NextCtor ==
    \/ \E key \in Keys : Running /\ get(key)
    \/ \E key \in Keys, value \in Values : Running /\ set(key, value)

SpecCtor == InitCtor /\ [][NextCtor]_allvars

\* A table on its own; the cache is constructed and left alone.
InitHT == Init /\ capacity_ = 1
SpecHT == InitHT /\ [][HtNext]_allvars

\* A table on its own on which a key is also inserted and erased again.
SpecRound == InitHT /\ [][RoundNext]_allvars

\* Two tables that differ in Hash, given the same calls.
SpecTwin == InitHT /\ [][TwinNext]_allvars

\* Either program with its calls taken step by step; the code is
\* sequential, so a call that was made keeps running.
SpecSteps == Init /\ [][StepsNext]_allvars /\ WF_allvars(StepsRun)

\* A table on its own that is filled with distinct keys.
SpecLoad == InitHT /\ [][NextLoad]_allvars

\* A table on its own, seen through its counters, filled and emptied.
SpecCount == InitHT /\ [][NextCount]_allvars

\* A MaxStack, a MaxQueue on its own.
SpecMaxStack == InitHT /\ [][MsNext]_allvars
SpecMaxQueue == InitHT /\ [][MqNext]_allvars

\* A Heap on its own, with either comparison.
InitHeap == \E l \in LessKinds : ConstructedWith(1, "new", l)
SpecHeap == InitHeap /\ [][HeapNext]_allvars

\* A UnionFind, a Deque on its own.
SpecUnionFind == InitHT /\ [][UfNext]_allvars
SpecDeque == InitHT /\ [][DqNext]_allvars

\* A graph that is built and then searched once; a call of bfs that has
\* started keeps running.
SpecBfs == InitHT /\ [][BfsNext]_allvars /\ WF_allvars(bfs_step)

\* ----------------------------------------------------------------- types
TypeOK ==
    /\ capacity_ \in 0..MaxCap
    /\ DOMAIN cache \subseteq Keys
    /\ \A k \in DOMAIN cache :
          cache[k].first \in Values /\ cache[k].second \in Iters
    /\ \A i \in DOMAIN order : order[i].it \in Iters /\ order[i].key \in Keys
    /\ ub \in BOOLEAN
    /\ phase \in {"filling", "refreshed", "evicted", "free"}

\* ================================================================== claims

\* C1. Bijection invariant: after any sequence of get and set calls the set
\* of keys in the index (cache) equals the set of keys in the recency
\* sequence (order), and both have the same number of elements, so that
\* order holds no key twice.
C1_Bijection ==
    /\ DOMAIN cache = {order[i].key : i \in DOMAIN order}
    /\ Cardinality(DOMAIN cache) = Len(order)

\* A full cache of the largest capacity right after a get that found its key
\* and reordered the recency sequence.
C1_Witness ==
    /\ last.op = "get" /\ last.ret # nullopt
    /\ capacity_ = MaxCap /\ size = capacity_
    /\ phase = "free"

\* C2. Capacity bound: for a cache constructed with capacity >= 1,
\* size() <= capacity() after every get and every set.
C2_CapacityBound == capacity >= 1 => size <= capacity

\* A full cache right after a set of one more distinct key than it can hold.
C2_Witness ==
    /\ last.op = "set"
    /\ phase = "filling" /\ Len(fills) > capacity_
    /\ size = capacity

\* C3. Eviction correctness: on a fresh cache of capacity C, after C + 1 set
\* calls on pairwise distinct keys and no get, the first key set is absent,
\* the other C keys are present with the values they were set to, and
\* size() = C.
C3_EvictsFirstInserted ==
    (phase = "filling" /\ Len(fills) = capacity_ + 1) =>
        /\ ~MapFind(cache, fills[1])
        /\ LRUget(cache, order, fills[1]).ret = nullopt
        /\ \A i \in 2..Len(fills) :
              /\ MapFind(cache, fills[i])
              /\ Some(cache[fills[i]].first) = written[fills[i]]
        /\ size = capacity_

\* The scenario with the largest capacity: MaxCap + 1 distinct keys set.
C3_Witness ==
    /\ phase = "filling" /\ capacity_ = MaxCap
    /\ Len(fills) = MaxCap + 1
    /\ \E i, j \in 2..Len(fills) : cache[fills[i]].first # cache[fills[j]].first

\* C4. Recency refresh by get: after filling a cache of capacity C >= 2 with
\* distinct keys k1..kC in that order, a successful get(k1) followed by a
\* set of a new key evicts k2 and not k1; k1 and k3..kC stay present with
\* their values.
C4_GetRefreshes ==
    (phase = "evicted" /\ capacity_ >= 2) =>
        /\ ~MapFind(cache, fills[2])
        /\ \A i \in (1..capacity_) \ {2} :
              /\ MapFind(cache, fills[i])
              /\ Some(cache[fills[i]].first) = written[fills[i]]
        /\ MapFind(cache, fills[capacity_ + 1])
        /\ size = capacity_

\* The scenario with capacity 3 or more, where k3..kC is not empty.
C4_Witness ==
    /\ phase = "evicted" /\ capacity_ >= 3
    /\ Len(fills) = capacity_ + 1
    /\ last.op = "set" /\ last.key = fills[capacity_ + 1]

\* C5. A set on a key that is already present counts as a use: it overwrites
\* the value, moves the key to the most recently used end of order exactly
\* as a successful get would, leaves size() unchanged and evicts nothing,
\* also when the cache is full.
C5_SetPresentStep ==
    (last'.op = "set" /\ MapFind(cache, last'.key)) =>
        /\ Some(cache'[last'.key].first) = last'.value
        /\ ListKeys(order') = Append(RemoveKey(ListKeys(order), last'.key),
                                     last'.key)
        /\ ListKeys(order') =
               ListKeys(LRUget(cache, order, last'.key).order)
        /\ size' = size
        /\ DOMAIN cache' = DOMAIN cache
        /\ \A k \in DOMAIN cache \ {last'.key} :
              cache'[k].first = cache[k].first

C5_SetPresentIsUse == [][C5_SetPresentStep]_vars

\* A full cache of the largest capacity right after a set of a key that was
\* present, with a value that differs from that of another present key.
C5_Witness ==
    /\ last.op = "set" /\ last.found /\ ~last.again
    /\ capacity_ = MaxCap /\ size = capacity_
    /\ \E k \in DOMAIN cache : Some(cache[k].first) # last.value

\* C6. Victim selection against a reference model: after every call the
\* cache holds exactly the capacity() most recently touched distinct keys (a
\* touch is a set, or a get that found the key) and order lists them from
\* least to most recently touched; and whenever set inserts a new key into a
\* full cache, the single key removed is the present key whose most recent
\* touch is the oldest.
C6_RefinesStep ==
    /\ ListKeys(order') = touched'
    /\ DOMAIN cache' = Range(touched')
    /\ (last'.op = "set" /\ ~MapFind(cache, last'.key) /\ size = capacity) =>
          /\ touched # <<>>
          /\ DOMAIN cache \ DOMAIN cache' = {Head(touched)}

C6_RefinesReference == [][C6_RefinesStep]_vars

\* A set of a new key into a full cache of the largest capacity, after calls
\* that reordered the keys.
C6_Witness ==
    /\ last.op = "set" /\ ~last.found /\ last.full
    /\ capacity_ = MaxCap /\ phase = "free"
    /\ \E i, j \in DOMAIN order : i < j /\ order[i].key > order[j].key

\* C7. A get of a key that is not in the cache returns nullopt, executes no
\* undefined behaviour, and leaves the index, the values, the recency order
\* and size() as they were.
C7_GetAbsentStep ==
    (last'.op = "get" /\ ~MapFind(cache, last'.key)) =>
        /\ last'.ret = nullopt
        /\ cache' = cache
        /\ order' = order
        /\ size' = size
        /\ ub' = ub

C7_GetAbsentNoEffect == [][C7_GetAbsentStep]_vars

\* A get that missed on a non-empty cache.
C7_Witness ==
    /\ last.op = "get" /\ ~last.found /\ last.ret = nullopt
    /\ size >= 2

\* C8. A get of a present key k returns the value of the most recent
\* set(k, .), moves k to the most recently used end and changes nothing
\* else: the present keys, every stored value, size() and the relative
\* order of the keys other than k are unchanged.
C8_GetPresentStep ==
    (last'.op = "get" /\ MapFind(cache, last'.key)) =>
        /\ last'.ret # nullopt
        /\ last'.ret = written[last'.key]
        /\ ListKeys(order') = Append(RemoveKey(ListKeys(order), last'.key),
                                     last'.key)
        /\ RemoveKey(ListKeys(order'), last'.key) =
               RemoveKey(ListKeys(order), last'.key)
        /\ DOMAIN cache' = DOMAIN cache
        /\ \A k \in DOMAIN cache : cache'[k].first = cache[k].first
        /\ size' = size

C8_GetPresentFrame == [][C8_GetPresentStep]_vars

\* A get that hit in a cache of two or more keys that hold different values.
C8_Witness ==
    /\ last.op = "get" /\ last.found /\ last.ret # nullopt
    /\ size >= 2
    /\ \E k \in DOMAIN cache : Some(cache[k].first) # last.ret

\* C9. Set postcondition: right after set(k, v) on a cache of capacity >= 1
\* the key k is present, get(k) returns v and k is at the tail of order;
\* when k was new and size() < capacity() before the call, no other key is
\* removed and size() grows by exactly one.
C9_SetStep ==
    (last'.op = "set" /\ capacity >= 1) =>
        /\ MapFind(cache', last'.key)
        /\ LRUget(cache', order', last'.key).ret = last'.value
        /\ order' # <<>>
        /\ Last(order').key = last'.key
        /\ (~MapFind(cache, last'.key) /\ size < capacity) =>
              /\ DOMAIN cache' = DOMAIN cache \cup {last'.key}
              /\ size' = size + 1
              /\ \A k \in DOMAIN cache : cache'[k].first = cache[k].first

C9_SetPostcondition == [][C9_SetStep]_vars

\* A set of a new key into a cache that was neither empty nor full.
C9_Witness ==
    /\ last.op = "set" /\ ~last.found /\ ~last.full
    /\ size >= 2

\* C10. Idempotent update: set(k, v) called again right after set(k, v)
\* leaves size() as it was after the first call, get(k) then returns v, and
\* the present keys, the values and the recency order after the second call
\* equal those after the first.
C10_RepeatStep ==
    (last'.op = "set" /\ last'.again) =>
        /\ size' = size
        /\ LRUget(cache', order', last'.key).ret = last'.value
        /\ DOMAIN cache' = DOMAIN cache
        /\ \A k \in DOMAIN cache : cache'[k].first = cache[k].first
        /\ ListKeys(order') = ListKeys(order)

C10_IdempotentSet == [][C10_RepeatStep]_vars

\* The same set made twice in a row on a full cache of the largest capacity.
C10_Witness ==
    /\ last.op = "set" /\ last.again /\ last.found
    /\ capacity_ = MaxCap /\ size = capacity_

\* C11. Constructing a cache with capacity 0 fails fast: no cache with
\* capacity() = 0 reaches a state in which get or set has run, and set never
\* executes the eviction path on an empty recency sequence.
C11_ZeroCapacityNeverRuns ==
    capacity = 0 => (last.op \notin {"get", "set"} /\ ~ub)

\* C12. There is no cache-full error: for a cache with capacity >= 1 a
\* set(k, v) succeeds in every reachable state, also when size() =
\* capacity(): k is then present with value v, no undefined behaviour is
\* executed, and when k was new and the cache full exactly one key, other
\* than k, has been removed.
C12_SetStep ==
    (last'.op = "set" /\ capacity >= 1) =>
        /\ MapFind(cache', last'.key)
        /\ Some(cache'[last'.key].first) = last'.value
        /\ ~ub'
        /\ (~MapFind(cache, last'.key) /\ size = capacity) =>
              /\ Cardinality(DOMAIN cache \ DOMAIN cache') = 1
              /\ last'.key \notin DOMAIN cache \ DOMAIN cache'
              /\ DOMAIN cache' \ DOMAIN cache = {last'.key}
              /\ size' = capacity

C12_NoCacheFullError == [][C12_SetStep]_vars

\* A set of a new key into a full cache of capacity 1, the tightest case.
C12_Witness ==
    /\ last.op = "set" /\ ~last.found /\ last.full
    /\ capacity_ = 1 /\ size = 1

\* C13. Per-key state machine: a key goes from absent to present only in a
\* set of that key; it goes from present to absent only in a set of another
\* key that was absent while size() = capacity(); no get and no set of a
\* present key changes which keys are present.
C13_KeyStep ==
    /\ \A k \in Keys :
          (~MapFind(cache, k) /\ MapFind(cache', k)) =>
              (last'.op = "set" /\ last'.key = k)
    /\ \A k \in Keys :
          (MapFind(cache, k) /\ ~MapFind(cache', k)) =>
              /\ last'.op = "set"
              /\ last'.key # k
              /\ ~MapFind(cache, last'.key)
              /\ size = capacity
    /\ (last'.op = "get" \/ (last'.op = "set" /\ MapFind(cache, last'.key)))
          => DOMAIN cache' = DOMAIN cache

C13_KeyStateMachine == [][C13_KeyStep]_vars

\* A set of a new key into a full cache of capacity 2, outside the scripted
\* scenario: in one step the least recently used key went from present to
\* absent and the new key from absent to present.
C13_Witness ==
    /\ last.op = "set" /\ ~last.found /\ last.full
    /\ capacity_ = 2 /\ phase = "free"
    /\ touched = <<1, 2>>

\* C14. capacity() is fixed at construction: no get or set, with or without
\* an eviction, changes what capacity() returns.
C14_CapacityStep == capacity' = capacity

C14_CapacityFixed == [][C14_CapacityStep]_vars

\* A cache that has grown, evicted and served a get that found its key.
C14_Witness ==
    /\ last.op = "get" /\ last.found /\ last.full
    /\ capacity = MaxCap /\ size = MaxCap
    /\ \E k \in Keys : ~MapFind(cache, k) /\ k < order[1].key

\* C15. The table agrees with a reference map: after any sequence of insert
\* and erase calls, rehashes and collisions included, find(k) returns the
\* value of the latest insert(k, .) that no erase(k) followed, and nullopt
\* for a key never inserted or erased since its last insert.
C15_AgreesWithReference ==
    /\ \A k \in HKeys : HTfind(buckets, k) = href[k]
    /\ hlast.op = "find" => hlast.ret = href[hlast.key]

\* A find that returned a value from a chain of two entries, in a table that
\* has rehashed and from which a key was erased after the rehash.
C15_Witness ==
    /\ hlast.op = "find" /\ hlast.ret # nullopt
    /\ nbuckets = 2 * InitBuckets
    /\ nelems < NumHKeys - 1
    /\ Len(buckets[BucketOf(hlast.key, nbuckets)]) = 2

\* C16. size() equals the number of distinct keys stored: it grows by one
\* only on an insert of a key that is not present, shrinks by one only on an
\* erase of a key that is present, and an insert that updates a key leaves
\* it unchanged.
C16_SizeStep ==
    /\ HTsize' = Cardinality(StoredKeys(buckets'))
    /\ NumEntries(buckets') = HTsize'
    /\ HTsize' \in {HTsize - 1, HTsize, HTsize + 1}
    /\ HTsize' = HTsize + 1 <=>
           (hlast'.op = "insert" /\ hlast'.key \notin StoredKeys(buckets))
    /\ HTsize' = HTsize - 1 <=>
           (hlast'.op = "erase" /\ hlast'.key \in StoredKeys(buckets))

C16_SizeCountsKeys == [][C16_SizeStep]_hvars

\* An insert that updated one of several keys, in a table that has rehashed
\* and lost a key since.
C16_Witness ==
    /\ hlast.op = "insert" /\ hlast.had
    /\ nbuckets = 2 * InitBuckets
    /\ HTsize = 2

\* C17. An insert of a key that is present overwrites the value of that key
\* in place and changes nothing else: the count, the bucket count, the
\* bucket and the place in its chain of every key and the value of every
\* other key are unchanged, and there is no rehash.
C17_UpdateStep ==
    (hlast'.op = "insert" /\ hlast'.key \in StoredKeys(buckets)) =>
        /\ HTsize' = HTsize
        /\ nbuckets' = nbuckets
        /\ \A h \in DOMAIN buckets :
              /\ Len(buckets'[h]) = Len(buckets[h])
              /\ \A i \in DOMAIN buckets[h] :
                    /\ buckets'[h][i].key = buckets[h][i].key
                    /\ Some(buckets'[h][i].value) =
                          IF buckets[h][i].key = hlast'.key
                          THEN hlast'.value
                          ELSE Some(buckets[h][i].value)

C17_UpdateInPlace == [][C17_UpdateStep]_hvars

\* An insert that updated the second entry of a chain.
C17_Witness ==
    /\ hlast.op = "insert" /\ hlast.had
    /\ \E h \in DOMAIN buckets :
          /\ Len(buckets[h]) = 2
          /\ buckets[h][2].key = hlast.key
          /\ Some(buckets[h][2].value) = hlast.value
          /\ buckets[h][1].value # buckets[h][2].value

\* C18. An insert of a new key increments the count by one and then doubles
\* the bucket count if and only if the new count divided by the current
\* bucket count is at least 0.75; below 0.75 the bucket count is unchanged.
\* On the counters, for the last insert of a step:
C18_LoadStep ==
    /\ cnelems' > cnelems
    /\ (cnbuckets' = 2 * cnbuckets) <=>
           (AlphaDen * cnelems' >= AlphaNum * cnbuckets)
    /\ (AlphaDen * cnelems' < AlphaNum * cnbuckets) =>
           cnbuckets' = cnbuckets

C18_DoublesIffRatioReached == [][C18_LoadStep]_cvars

\* C19. The comparison is made on the real-valued ratio, so a table with B
\* buckets doubles on precisely the insert that brings the count to 3B/4,
\* not an insert earlier and not one later: the count stays below 3/4 of
\* the bucket count, and a table that has doubled holds at least 3/4 of the
\* bucket count it had before.  From 8 buckets and no entries, the bucket
\* count is 8 after inserts 1..5 of distinct keys and 16 after inserts 6..9.
C19_ExactTrigger ==
    /\ AlphaDen * cnelems < AlphaNum * cnbuckets
    /\ cnbuckets > InitBuckets =>
           AlphaDen * cnelems >= AlphaNum * (cnbuckets \div 2)
    /\ cnelems \in 1..5 => cnbuckets = InitBuckets
    /\ cnelems \in 6..NumTestKeys => cnbuckets = 2 * InitBuckets

\* C20. erase(k) of a key that is present removes its entry, the count drops
\* by one and every other key keeps its value, the keys chained in the same
\* bucket included; erase(k) of a key that is absent is a no-op: no error,
\* and the buckets, the count and the bucket count are unchanged.
C20_EraseStep ==
    hlast'.op = "erase" =>
        /\ nbuckets' = nbuckets
        /\ hlast'.key \notin StoredKeys(buckets')
        /\ \A k \in HKeys \ {hlast'.key} :
              HTfind(buckets', k) = HTfind(buckets, k)
        /\ hlast'.key \in StoredKeys(buckets) => HTsize' = HTsize - 1
        /\ hlast'.key \notin StoredKeys(buckets) =>
              buckets' = buckets /\ HTsize' = HTsize

C20_EraseRemovesOneKey == [][C20_EraseStep]_hvars

\* An erase that removed a key from a chain in which another key stays.
C20_Witness ==
    /\ hlast.op = "erase" /\ hlast.had
    /\ buckets[BucketOf(hlast.key, nbuckets)] # <<>>

\* C21. Rehash preserves data: a resize triggered by the load factor keeps
\* the set of (key, value) entries exactly the same (the entries before the
\* insert and the one it added), each key stored once and in bucket
\* hash(key) mod the new bucket count, so that right after the resize find
\* returns for every key its most recently set value.
C21_RehashStep ==
    nbuckets' # nbuckets =>
        /\ Entries(buckets') =
              Entries(buckets) \cup
                  {[key |-> hlast'.key, value |-> v] : v \in hlast'.value}
        /\ NumEntries(buckets') = Cardinality(StoredKeys(buckets'))
        /\ \A h \in DOMAIN buckets' : \A i \in DOMAIN buckets'[h] :
              (hasher(buckets'[h][i].key) % nbuckets') + 1 = h
        /\ \A k \in HKeys :
              HTfind(buckets', k) =
                  IF k = hlast'.key THEN hlast'.value ELSE href[k]

C21_RehashPreservesData == [][C21_RehashStep]_hvars

\* The state right after a rehash that moved two keys into one chain.
C21_Witness ==
    /\ hlast.op = "insert" /\ hlast.grew
    /\ nbuckets = 2 * InitBuckets
    /\ \E h \in DOMAIN buckets : Len(buckets[h]) = 2

\* C22. Load-factor bound: right after every insert that added a new key,
\* any rehash it triggered done, count / bucket count does not exceed 0.75,
\* for every sequence of insert and erase calls.
C22_LoadStep ==
    cnelems' > cnelems => AlphaDen * cnelems' <= AlphaNum * cnbuckets'

C22_LoadFactorBound == [][C22_LoadStep]_cvars

\* A table with 2^(FloatDigits + 1) buckets, where the count no longer
\* converts to float exactly, two inserts or less below 3/4 of its bucket
\* count; only inserts lead to such a count.
C22_Witness ==
    /\ cnbuckets = 2^(FloatDigits + 1)
    /\ AlphaDen * (cnelems + 2) >= AlphaNum * cnbuckets

\* C23. Bucket count shape: the number of buckets is 8 at construction, is
\* always positive and changes only by doubling; no operation sets it to
\* any other value.
C23_BucketStep == nbuckets' \in {nbuckets, 2 * nbuckets} /\ nbuckets' > 0

C23_BucketCountShape == nbuckets = InitBuckets /\ [][C23_BucketStep]_hvars

\* A table that has doubled, and from which keys were erased since.
C23_Witness ==
    /\ nbuckets = 2 * InitBuckets
    /\ hlast.op = "erase" /\ hlast.had
    /\ HTsize = 0

\* C24. find is read-only: a find call, of a key that is present or absent,
\* leaves every chain, the count and the bucket count unchanged, so two
\* consecutive find(k) calls return the same result.
C24_FindStep ==
    hlast'.op = "find" =>
        /\ buckets' = buckets
        /\ HTsize' = HTsize
        /\ nbuckets' = nbuckets
        /\ (hlast.op = "find" /\ hlast.key = hlast'.key) =>
              hlast'.ret = hlast.ret

C24_FindReadOnly == [][C24_FindStep]_hvars

\* A find that returned the value of the second entry of a chain, in a table
\* that has doubled.
C24_Witness ==
    /\ hlast.op = "find" /\ hlast.had
    /\ nbuckets = 2 * InitBuckets
    /\ \E h \in DOMAIN buckets :
          /\ Len(buckets[h]) = 2
          /\ buckets[h][2].key = hlast.key
          /\ Some(buckets[h][2].value) = hlast.ret

\* C25. MaxStack: after any sequence of push and pop calls that leaves the
\* stack non-empty, max() returns the maximum of the elements in the stack,
\* also when the maximum was pushed more than once and one copy has been
\* popped, and top() returns the most recently pushed element not yet
\* popped.
C25_MaxStackMax ==
    /\ Len(sElems) = Len(sRef)
    /\ sRef # <<>> =>
          /\ MaxStackMax(sMaxv) = SeqMax(sRef)
          /\ MaxStackTop(sElems) = sRef[Len(sRef)]
    /\ (sLast.op = "max" /\ sRef # <<>>) => sLast.value = Some(SeqMax(sRef))
    /\ (sLast.op = "top" /\ sRef # <<>>) => sLast.value = Some(sRef[Len(sRef)])
    /\ sLast.threw => sRef = <<>>

\* A pop removed one copy of the maximum and another copy is still in the
\* stack, below a smaller element.
C25_Witness ==
    /\ sLast.op = "pop" /\ ~sLast.threw
    /\ Len(sRef) >= 2
    /\ sLast.value = Some(SeqMax(sRef))
    /\ sRef[Len(sRef)] < SeqMax(sRef)

\* C26. MaxQueue: after any sequence of push and pop calls that leaves the
\* queue non-empty, max() returns the maximum of the elements in the queue,
\* also with repeated equal values, and front() returns the oldest element
\* not yet popped.
C26_MaxQueueMax ==
    /\ Len(qElems) = Len(qRef)
    /\ qRef # <<>> =>
          /\ MaxQueueMax(qMaxv) = SeqMax(qRef)
          /\ MaxQueueFront(qElems) = Head(qRef)
    /\ (qLast.op = "max" /\ qRef # <<>>) => qLast.value = Some(SeqMax(qRef))
    /\ (qLast.op = "front" /\ qRef # <<>>) => qLast.value = Some(Head(qRef))
    /\ qLast.threw => qRef = <<>>

\* A pop removed one copy of the maximum and an equal value is still in the
\* queue, followed by a smaller one.
C26_Witness ==
    /\ qLast.op = "pop" /\ ~qLast.threw
    /\ Len(qRef) >= 2
    /\ qLast.value = Some(SeqMax(qRef))
    /\ qRef[Len(qRef)] < SeqMax(qRef)

\* C27. Heap ordering: after any sequence of push and pop_front calls that
\* leaves the heap non-empty, front() returns the element that is least
\* under Less among the elements in the heap (the minimum for std::less, the
\* maximum for std::greater); the heap holds what was pushed less what
\* pop_front removed, least first, so repeated front()/pop_front() yields
\* the elements in sorted order.
C27_HeapOrder ==
    /\ TreeCount(tree) = hRef
    /\ HeapSize(tree) >= 1 => HeapFront(tree) = RefLeast(hRef, less)
    /\ (pLast.op = "front" /\ HeapSize(tree) >= 1) =>
          pLast.value = Some(RefLeast(hRef, less))

\* A pop_front from a heap under std::greater that left three elements, the
\* greatest of them in the heap twice.
C27_Witness ==
    /\ less = "greater"
    /\ pLast.op = "pop_front" /\ ~pLast.threw
    /\ HeapSize(tree) = 3
    /\ hRef[RefLeast(hRef, less)] = 2

\* C28. UnionFind membership: after any sequence of add(id) and
\* add(id1, id2) calls, is_member(a, b) is true for two added ids exactly
\* when a and b are connected by the reflexive, symmetric and transitive
\* closure of the pairs passed to add(id1, id2).
C28_Membership ==
    /\ DOMAIN components = uAdded
    /\ \A a, b \in uAdded :
          is_member(components, a, b) <=> Connected(a, b, uPairs)

\* C29. UnionFind size: after any sequence of add(id) and add(id1, id2)
\* calls, add(id) of an id already added or already merged included,
\* size(id) equals the number of ids that are in the same set as id
\* according to is_member.
C29_SizeCountsMembers ==
    \A id \in uAdded :
        UFsize(components, sizes, id) =
            Cardinality({x \in uAdded : is_member(components, id, x)})

\* C30. Deque is the union of a stack and a queue: after any sequence of
\* push_front, push_back, pop_front and pop_back calls that leaves it
\* non-empty, front() and back() return the first and the last element of
\* the reference sequence and size() its length; in particular pop_back
\* after push_front exposes the correct new back element.
C30_DequeRefines ==
    /\ ~dUb
    /\ nelem = Len(dRef)
    /\ dRef # <<>> =>
          /\ head \in DOMAIN nodes /\ tail \in DOMAIN nodes
          /\ DequeFrontData(nodes, head) = Head(dRef)
          /\ DequeBackData(nodes, tail) = dRef[Len(dRef)]

\* C31. bfs visits every vertex reachable from start exactly once, in
\* non-decreasing order of hop distance from start; for each vertex other
\* than start it passes a pair (from, to) in which from was visited earlier
\* and is one hop closer to start, so the distances that the visitor
\* accumulates are shortest-path distances; and the traversal terminates,
\* on graphs with cycles too.
C31_Visits ==
    /\ \A i, j \in DOMAIN bVisits :
          bVisits[i][2] = bVisits[j][2] => i = j
    /\ \A i \in DOMAIN bVisits : bVisits[i][2] \in Reachable(gVertices, bStart)
    /\ (bPc = "done" /\ ~bThrew) =>
          {bVisits[i][2] : i \in DOMAIN bVisits} = Reachable(gVertices, bStart)
    /\ \A i, j \in DOMAIN bVisits :
          i <= j => Dist(gVertices, bStart, bVisits[i][2])
                        <= Dist(gVertices, bStart, bVisits[j][2])
    /\ bVisits # <<>> => bVisits[1] = <<bStart, bStart>>
    /\ \A i \in DOMAIN bVisits :
          i > 1 =>
             /\ bVisits[i][2] # bStart
             /\ \E j \in 1..(i - 1) : bVisits[j][2] = bVisits[i][1]
             /\ Dist(gVertices, bStart, bVisits[i][1]) + 1
                    = Dist(gVertices, bStart, bVisits[i][2])
             /\ bVisited[bVisits[i][2]]
                    = Dist(gVertices, bStart, bVisits[i][2])

C31_BfsShortestPaths ==
    /\ []C31_Visits
    /\ (bPc = "while") ~> (bPc = "done")

\* bfs has returned from a graph with a cycle through start in which a
\* vertex two hops away also has an edge from it back to start.
C31_Witness ==
    /\ bPc = "done" /\ ~bThrew
    /\ Len(bVisits) = NumVertices
    /\ \E v \in Vertices :
          /\ Dist(gVertices, bStart, v) = 2
          /\ bVisited[v] = 2
          /\ bStart \in Range(gVertices[v])

\* C32. Empty-container errors leave the heap usable: front() and
\* pop_front() on an empty Heap throw heap_empty_error without changing the
\* heap, so the slot at index 0 is never removed and size() never
\* underflows, and a push that follows, followed by front(), returns the
\* pushed value.
C32_ErrorStep ==
    /\ (pLast'.op \in {"front", "pop_front"} /\ HeapSize(tree) < 1) =>
          /\ pLast'.threw
          /\ tree' = tree
          /\ HeapSize(tree') = 0
    /\ pLast'.threw => (HeapSize(tree) < 1 /\ tree' = tree)
    /\ (pLast.op = "push" /\ HeapSize(tree) = 1 /\ pLast'.op = "front") =>
          (~pLast'.threw /\ pLast'.value = pLast.value)

C32_EmptyHeapErrors ==
    /\ [](Len(tree) >= 1 /\ HeapSize(tree) >= 0)
    /\ [][C32_ErrorStep]_hpvars

\* pop_front has thrown on an empty heap under std::greater, and the heap
\* is the vector that holds the slot at index 0 only.
C32_Witness ==
    /\ less = "greater"
    /\ pLast.op = "pop_front" /\ pLast.threw
    /\ tree = <<0>>
    /\ HeapSize(tree) = 0

\* C33. Hash Index structural invariant: in every state reachable by insert,
\* erase and rehash, each stored key appears in exactly one chain, the chain
\* at index hash(key) mod bucket_count, no key appears twice anywhere in the
\* table, and the count equals the total number of entries over all chains.
C33_Structure ==
    /\ \A h \in DOMAIN buckets : \A i \in DOMAIN buckets[h] :
          /\ BucketOf(buckets[h][i].key, nbuckets) = h
          /\ \A g \in DOMAIN buckets : \A j \in DOMAIN buckets[g] :
                buckets[g][j].key = buckets[h][i].key => (g = h /\ j = i)
    /\ nelems = NumEntries(buckets)

\* An erase took a key out of a table that has rehashed, in which two keys
\* that collide share a chain.
C33_Witness ==
    /\ hlast.op = "erase" /\ hlast.had
    /\ nbuckets = 2 * InitBuckets
    /\ nelems >= 3
    /\ \E h \in DOMAIN buckets : Len(buckets[h]) = 2

C36_SizeStep ==
    /\ MapSize(cache') >= MapSize(cache)
    /\ MapSize(cache') <= MapSize(cache) + 1
    /\ MapSize(cache) = capacity_ => MapSize(cache') = capacity_'
    /\ last'.op = "get" => MapSize(cache') = MapSize(cache)

C36_SizeNeverDecreases == [][C36_SizeStep]_vars

\* A set of a new key on a full cache, which evicted a key that a later
\* call had not refreshed: the size is the capacity before and after.
C36_Witness ==
    /\ last.op = "set" /\ last.full /\ ~last.found
    /\ size = capacity
    /\ capacity > 1
    /\ phase = "free"

\* C37. Hash Index bucket count never decreases: erase never shrinks or
\* rehashes the table, so after any sequence of insert and erase calls the
\* bucket count is at least its earlier value, and a table emptied by erase
\* keeps the bucket count it had grown to.
C37_GrowStep ==
    /\ nbuckets' >= nbuckets
    /\ hlast'.op = "erase" =>
          /\ nbuckets' = nbuckets
          /\ \A h \in DOMAIN buckets :
                h # BucketOf(hlast'.key, nbuckets) => buckets'[h] = buckets[h]
    /\ (hlast'.op = "erase" /\ nelems' = 0) =>
          (nbuckets' = nbuckets /\ Flatten(buckets') = <<>>)

C37_BucketCountNeverDecreases == [][C37_GrowStep]_hvars

\* An erase removed the last key of a table that had grown to twice its
\* first bucket count.
C37_Witness ==
    /\ hlast.op = "erase" /\ hlast.had
    /\ nelems = 0
    /\ nbuckets = 2 * InitBuckets

\* C38. Hash Index insert/erase round trip: in any reachable state where key
\* k is absent, insert(k, v) followed by erase(k) restores the same
\* key-to-value mapping and the same size() as before the pair of calls,
\* also when the insert triggered a rehash; only the bucket count may
\* differ.
C38_RoundStep ==
    hlast'.op = "insert_erase" =>
        /\ \A k \in HKeys : HTfind(buckets', k) = HTfind(buckets, k)
        /\ HTsize' = HTsize
        /\ StoredKeys(buckets') = StoredKeys(buckets)
        /\ nbuckets' \in {nbuckets, 2 * nbuckets}

C38_RoundTrip == [][C38_RoundStep]_hvars

\* The insert of the pair rehashed a table in which two keys share a chain.
C38_Witness ==
    /\ hlast.op = "insert_erase" /\ hlast.grew
    /\ nbuckets = 2 * InitBuckets
    /\ HTsize = NumHKeys - 1
    /\ \E h \in DOMAIN buckets : Len(buckets[h]) = 2

\* C39. Hash Index behaviour is independent of the hash function: for the
\* same sequence of insert, erase and find calls, two tables that use
\* different deterministic hash functions, one of which maps every key to
\* the same bucket, return the same find results and have the same size()
\* and the same bucket count at every step.
C39_HashIndependent ==
    /\ tSame
    /\ nelems2 = nelems
    /\ Len(buckets2) = Len(buckets)
    /\ \A k \in TwinKeys :
          HTfind(buckets2, Renamed(k)) = HTfind(buckets, k)

\* Both tables have rehashed and lost a key since; the second holds all its
\* entries in one chain, the first holds its entries in chains of one.
C39_Witness ==
    /\ Len(buckets) = 2 * InitBuckets
    /\ nelems = 4
    /\ Len(buckets2[1]) = nelems2
    /\ \A h \in DOMAIN buckets : Len(buckets[h]) <= 1
    /\ \E k \in TwinKeys : HTfind(buckets, k) = Some(2)

\* C35: every operation of the table and of the cache terminates: a call
\* of insert, find, erase, get or set that was made returns after finitely
\* many steps from every reachable state; one insert enters rehash at most
\* once, only find and erase never enter it, and the entries that rehash
\* re-places go into buckets_cp without any test of the load, so all of them
\* are placed and the count of the table does not move while it runs.
C35_Running == pc # "idle"

C35_Returned == pc = "idle"

C35_OneRehash ==
    /\ rehashes <= 1
    /\ (rehashes = 1 => prog = "hashtable" /\ call.op = "insert")
    /\ (pc = "rehash" =>
          /\ rehashes = 1
          /\ nelems = call.nelems + 1
          /\ Len(buckets_cp) = 2 * Len(call.buckets)
          /\ Len(buckets) = Len(call.buckets))

C35_Terminates == []C35_OneRehash /\ (C35_Running ~> C35_Returned)

\* An insert that entered rehash has returned with the table doubled.
C35_Witness ==
    /\ prog = "hashtable"
    /\ pc = "idle"
    /\ call.op = "insert"
    /\ rehashes = 1
    /\ Len(buckets) = 2 * Len(call.buckets)
    /\ nelems = call.nelems + 1

====
